---- MODULE Spec2Model ----
(***************************************************************************)
(* PurgePack: the module host (purgepack/src/main.rs) and the delta codec  *)
(* (delta_module/src/lib.rs).                                              *)
(*                                                                         *)
(* Strings are sequences of atoms: "+a" is <<"+", "a">>, "liba" is         *)
(* <<"lib", "a">>.  No atom other than "+" begins with '+' and no atom     *)
(* other than "lib" begins with "lib", so contains('+') and strip_prefix   *)
(* are decided on the atoms.                                               *)
(***************************************************************************)
EXTENDS Integers, Sequences, FiniteSets, TLC

\* Longest command line (tokens after the program name) and longest
\* directory listing that are explored.
MaxArgs == 3
MaxDir == 2

\* Longest plaintext the delta codec is run on.
MaxDeltaLen == 4
MaxBits == 9
MaxRuns == 2
MaxStream == 3
MaxHuffLen == 4

None == [some |-> FALSE, v |-> <<>>]
Some(x) == [some |-> TRUE, v |-> x]

first_arg == <<"host">>

\* The tokens a command line is drawn from.
Tokens == { <<"ping">>, <<"+", "a">>, <<"+", "b">>, <<"+", "core">>, <<"a", "+", "b">> }

ArgLists == UNION { [1..n -> Tokens] : n \in 0..MaxArgs }

File(stem, ext, isf, st, sh) ==
    [stem |-> stem, ext |-> ext, is_file |-> isf, startup |-> st, shutdown |-> sh]

\* The files a modules directory is drawn from, per target OS.  The library
\* "a" comes with both entry points, without module_startup and without
\* module_shutdown; the other libraries export both.  One entry has a foreign
\* extension and one is a directory.
FilesOf(target) ==
    IF target = "linux"
    THEN { File(<<"lib", "a">>, "so", TRUE, TRUE, TRUE),
           File(<<"lib", "a">>, "so", TRUE, FALSE, TRUE),
           File(<<"lib", "a">>, "so", TRUE, TRUE, FALSE),
           File(<<"lib", "b">>, "SO", TRUE, TRUE, TRUE),
           File(<<"a">>, "so", TRUE, TRUE, TRUE),
           File(<<"lib", "b">>, "dll", TRUE, TRUE, TRUE),
           File(<<"lib", "c">>, "so", FALSE, FALSE, FALSE) }
    ELSE { File(<<"a">>, "dll", TRUE, TRUE, TRUE),
           File(<<"a">>, "dll", TRUE, FALSE, TRUE),
           File(<<"a">>, "dll", TRUE, TRUE, FALSE),
           File(<<"b">>, "DLL", TRUE, TRUE, TRUE),
           File(<<"lib", "a">>, "dll", TRUE, TRUE, TRUE),
           File(<<"b">>, "so", TRUE, TRUE, TRUE),
           File(<<"c">>, "dll", FALSE, FALSE, FALSE) }

FileName(f) == <<f.stem, f.ext>>

\* Directory listings: sequences of files with pairwise distinct names.
Listings(target) ==
    UNION { { d \in [1..n -> FilesOf(target)] :
                \A i, j \in 1..n : i # j => FileName(d[i]) # FileName(d[j]) } : n \in 0..MaxDir }

VARIABLES
    os,              \* cfg(target_os): "linux" or "windows"
    argv,            \* std::env::args() without the program name
    dirExists,       \* whether ./modules can be read
    dir,             \* the listing read_dir("modules") yields
    pc,              \* position of main
    global_args,     \* Option<Vec<String>>
    seperated_args,  \* IndexMap<String, Vec<String>>, as a sequence of [k, v]
    library_names,   \* load_modules: paths still to load (indices into dir)
    libraries,       \* Vec<Module> of the all-modules pass (handle ids)
    failed_modules,  \* the counter of load_modules / unload_modules
    si,              \* unload_modules: next module of the shutdown loop
    ci,              \* unload_modules: next module of the close loop
    gi,              \* main: next group of seperated_args
    module,          \* main: the Module load_module returned (handle id, 0 if none)
    unload_result,   \* what unload_modules returned: "none", "Ok", "Err"
    handles,         \* every library handle opened so far
    events,          \* history of library and entry-point calls
    group_log,       \* names the per-group loop has taken up, in order
    printed,         \* what main printed
    pings,           \* number of ping_core() calls
    \* delta module: one call of start_proccessing_file, and the call after it
    d_pc,            \* position in start_proccessing_file
    d_transform,     \* transform_type: "Encode" or "Decode"
    d_in_ext,        \* input_file.extension()
    d_out_ext,       \* output_file.extension()
    d_input,         \* bytes of the input file
    d_pos,           \* bytes the BufReader has handed out
    d_in_opened,     \* File::open(input_file) was called
    d_out_created,   \* File::create(output_file) was called
    d_output,        \* bytes of the output file
    d_prev,          \* previous_byte
    d_result,        \* "none", "Ok" or the error returned
    d_stage,         \* 1: the first call, 2: the inverse run on its output
    d_orig,          \* the plaintext the first call was given
    d_chunks,        \* how many chunks the loop has transformed
    \* rls module: one call of compress_from_file or decompress_from_file,
    \* and the call after it
    r_pc,            \* position in compress_from_file / decompress_from_file
    r_command,       \* args.command: "Compress" or "Decompress"
    r_version,       \* args.rle_version: "One", "Two" or "Auto"
    r_in_suffix,     \* how input_file_path ends
    r_input,         \* bytes of the input file
    r_chosen,        \* versiom_chosen
    r_data,          \* compressed_data, or result_data of the decompression
    r_out_created,   \* File::create(output_file_path) was called
    r_output,        \* bytes of the output file
    r_result,        \* "none", "Ok", the error printed, or the panic
    r_stage,         \* 1: the first call, 2: the decompression of its output
    r_orig,          \* the bytes the first call was given
    r_chunks,        \* random_chunks, while compress_from_file runs
    r_log,           \* the compress calls that returned: version, choice, output
    \* huffman module: one call of canonical_huffman
    h_pc,            \* position in canonical_huffman
    h_args_len,      \* args.len()
    h_buffer,        \* buffer: the bytes of the file to compress
    h_heap,          \* the BinaryHeap of generate_huffman_tree
    h_code_lengths,  \* code_lengths
    h_compressed_bits, \* compressed_bits
    h_file,          \* bytes of compressed_canonical.purgepack
    h_cut,           \* whether the file was cut short before it is read back
    h_back_buffer,   \* back_buffer
    h_result_file,   \* bytes of the result file args[2]
    h_result,        \* "none", "Ok", "returned" or the panic
    \* BitWriter and BitReader on their own
    b_pc,            \* "write", "read" or "done"
    b_bits,          \* the bits handed to write_bit, in order
    b_written,       \* how many of them were written
    b_writer,        \* the BitWriter
    b_reader,        \* the BitReader
    b_read,          \* the bits read_bit returned, in order
    b_none,          \* read_bit returned None
    \* shared_files: one CompressionStatsBuilder, from new() to build()
    s_pc,            \* "building" or "built"
    s_builder,       \* the CompressionStatsBuilder
    s_called,        \* the setters of mandatory fields called so far, with the value last given
    s_section_calls, \* the calls of sections and add_section so far, in order
    s_result,        \* what build returned
    \* rls module: auto_choice_from_chunks on its own
    a_pc,            \* "call" or "returned"
    a_chunks,        \* chunks
    a_choice         \* the version returned

hostVars == << os, argv, dirExists, dir, pc, global_args, seperated_args, library_names,
               libraries, failed_modules, si, ci, gi, module, unload_result, handles,
               events, group_log, printed, pings >>

deltaVars == << d_pc, d_transform, d_in_ext, d_out_ext, d_input, d_pos, d_in_opened,
                d_out_created, d_output, d_prev, d_result, d_stage, d_orig, d_chunks >>

rleVars == << r_pc, r_command, r_version, r_in_suffix, r_input, r_chosen, r_data,
              r_out_created, r_output, r_result, r_stage, r_orig, r_chunks, r_log >>

huffVars == << h_pc, h_args_len, h_buffer, h_heap, h_code_lengths, h_compressed_bits,
               h_file, h_cut, h_back_buffer, h_result_file, h_result >>

bitVars == << b_pc, b_bits, b_written, b_writer, b_reader, b_read, b_none >>

statsVars == << s_pc, s_builder, s_called, s_section_calls, s_result >>

autoVars == << a_pc, a_chunks, a_choice >>

vars == << hostVars, deltaVars, rleVars, huffVars, bitVars, statsVars, autoVars >>

\* What each program leaves alone: the state of the other programs.
notHost == << deltaVars, rleVars, huffVars, bitVars, statsVars, autoVars >>
notDelta == << hostVars, rleVars, huffVars, bitVars, statsVars, autoVars >>
notRle == << hostVars, deltaVars, huffVars, bitVars, statsVars, autoVars >>
notHuff == << hostVars, deltaVars, rleVars, bitVars, statsVars, autoVars >>
notBit == << hostVars, deltaVars, rleVars, huffVars, statsVars, autoVars >>
notStats == << hostVars, deltaVars, rleVars, huffVars, bitVars, autoVars >>
notAuto == << hostVars, deltaVars, rleVars, huffVars, bitVars, statsVars >>

----------------------------------------------------------------------------
\* Strings and the IndexMap

contains(s, c) == \E i \in DOMAIN s : s[i] = c

strip_prefix(s, p) == IF Len(s) > 0 /\ s[1] = p THEN Some(Tail(s)) ELSE None

to_ascii_lowercase(e) ==
    CASE e = "SO" -> "so"
      [] e = "DLL" -> "dll"
      [] e = "PPCB" -> "ppcb"
      [] e = "Ppcb" -> "ppcb"
      [] OTHER -> e

contains_key(m, k) == \E i \in DOMAIN m : m[i].k = k

\* insert on a list of pairs that is not keyed: every call appends.
insert_Appends(m, k, v) == Append(m, [k |-> k, v |-> v])

\* insert that leaves the value of a present key as it is.
insert_KeepsValue(m, k, v) ==
    IF contains_key(m, k) THEN m ELSE Append(m, [k |-> k, v |-> v])

\* IndexMap::insert: a present key keeps its position and gets the new value.
insert(m, k, v) ==
    IF contains_key(m, k)
    THEN [i \in DOMAIN m |-> IF m[i].k = k THEN [k |-> k, v |-> v] ELSE m[i]]
    ELSE Append(m, [k |-> k, v |-> v])

get_mut_push(m, k, x) ==
    [i \in DOMAIN m |-> IF m[i].k = k THEN [k |-> k, v |-> Append(m[i].v, x)] ELSE m[i]]

----------------------------------------------------------------------------
\* main: argument routing

ParseInit == [panic |-> FALSE, global_args |-> None, seperated_args |-> <<>>,
              last_main_arg |-> <<>>]

\* Which tokens open a module group.
OpensGroup(arg) == contains(arg, "+")

\* One iteration of the routing loop.
ParseStep(ps, arg) ==
    IF ps.seperated_args = <<>> /\ ~OpensGroup(arg)
    THEN [ps EXCEPT !.global_args = Some(Append(ps.global_args.v, arg))]
    ELSE IF OpensGroup(arg)
    THEN LET name == strip_prefix(arg, "+")
         IN  IF ~name.some
             THEN [ps EXCEPT !.panic = TRUE]
             ELSE [ps EXCEPT !.last_main_arg = name.v,
                             !.seperated_args = insert(ps.seperated_args, name.v, <<>>)]
    ELSE IF contains_key(ps.seperated_args, ps.last_main_arg)
    THEN [ps EXCEPT !.seperated_args = get_mut_push(ps.seperated_args, ps.last_main_arg, arg)]
    ELSE ps

RECURSIVE ParseLoop(_, _)
ParseLoop(ps, args) ==
    IF args = <<>> \/ ps.panic THEN ps
    ELSE ParseLoop(ParseStep(ps, Head(args)), Tail(args))

----------------------------------------------------------------------------
\* Module discovery

NativeExt(target) == IF target = "linux" THEN "so" ELSE "dll"

\* The filter without the test that the entry is a file.
IsLibrary_AnyEntry(f, target) == to_ascii_lowercase(f.ext) = NativeExt(target)

\* The filter both loaders apply to a directory entry.
IsLibrary(f, target) == f.is_file /\ to_ascii_lowercase(f.ext) = NativeExt(target)

\* load_modules_*: the paths pushed to library_names, in listing order.
RECURSIVE ScanAll(_, _, _)
ScanAll(d, target, i) ==
    IF i > Len(d) THEN <<>>
    ELSE IF IsLibrary(d[i], target) THEN <<i>> \o ScanAll(d, target, i + 1)
    ELSE ScanAll(d, target, i + 1)

\* The module identifier of a file stem: Some(name), or None where the
\* loader's unwrap() of strip_prefix("lib") panics.
ModuleNameOf(stem, target) ==
    IF target = "linux" THEN strip_prefix(stem, "lib") ELSE Some(stem)

\* load_module_*: the scan for the library of module_name.
RECURSIVE FindModule(_, _, _, _)
FindModule(d, target, module_name, i) ==
    IF i > Len(d) THEN [panic |-> FALSE, found |-> 0]
    ELSE IF ~IsLibrary(d[i], target) THEN FindModule(d, target, module_name, i + 1)
    ELSE LET f_name == ModuleNameOf(d[i].stem, target)
         IN  IF ~f_name.some THEN [panic |-> TRUE, found |-> 0]
             ELSE IF f_name.v = module_name THEN [panic |-> FALSE, found |-> i]
             ELSE FindModule(d, target, module_name, i + 1)

----------------------------------------------------------------------------
\* Library handles

Handle(f, pass, st) == [file |-> f, pass |-> pass, st |-> st, args |-> <<>>]

Ev(op, h, f, pass) == [op |-> op, h |-> h, file |-> f, pass |-> pass]

\* What becomes of a handle the host gives up without calling close: on Linux
\* Library's Drop runs dlclose, on Windows an HMODULE is a plain value.
AfterScopeExit(target) == IF target = "linux" THEN "dropped" ELSE "open"

EventsAfterScopeExit(target, h, f, pass) ==
    IF target = "linux" THEN << Ev("drop", h, f, pass) >> ELSE << >>

----------------------------------------------------------------------------
\* main

HostInit ==
    /\ os \in {"linux", "windows"}
    /\ argv \in ArgLists
    /\ dirExists \in BOOLEAN
    /\ dir \in (IF dirExists THEN Listings(os) ELSE { <<>> })
    /\ pc = "start"
    /\ global_args = None
    /\ seperated_args = <<>>
    /\ library_names = <<>>
    /\ libraries = <<>>
    /\ failed_modules = 0
    /\ si = 1
    /\ ci = 1
    /\ gi = 1
    /\ module = 0
    /\ unload_result = "none"
    /\ handles = <<>>
    /\ events = <<>>
    /\ group_log = <<>>
    /\ printed = <<>>
    /\ pings = 0

\* The delta module is not running.
DeltaIdle ==
    /\ d_pc = "idle"
    /\ d_transform = "Encode"
    /\ d_in_ext = None
    /\ d_out_ext = None
    /\ d_input = <<>>
    /\ d_pos = 0
    /\ d_in_opened = FALSE
    /\ d_out_created = FALSE
    /\ d_output = <<>>
    /\ d_prev = 0
    /\ d_result = "none"
    /\ d_stage = 1
    /\ d_orig = <<>>
    /\ d_chunks = 0

\* The rls module is not running.
RleIdle ==
    /\ r_pc = "idle"
    /\ r_command = "Compress"
    /\ r_version = "One"
    /\ r_in_suffix = ""
    /\ r_input = <<>>
    /\ r_chosen = "One"
    /\ r_data = <<>>
    /\ r_out_created = FALSE
    /\ r_output = <<>>
    /\ r_result = "none"
    /\ r_stage = 1
    /\ r_orig = <<>>
    /\ r_chunks = <<>>
    /\ r_log = <<>>

\* The huffman module is not running.
HuffIdle ==
    /\ h_pc = "idle"
    /\ h_args_len = 3
    /\ h_buffer = <<>>
    /\ h_heap = <<>>
    /\ h_code_lengths = <<>>
    /\ h_compressed_bits = <<>>
    /\ h_file = <<>>
    /\ h_cut = FALSE
    /\ h_back_buffer = <<>>
    /\ h_result_file = <<>>
    /\ h_result = "none"

\* No BitWriter and no BitReader exists.
BitIdle ==
    /\ b_pc = "idle"
    /\ b_bits = <<>>
    /\ b_written = 0
    /\ b_writer = [buffer |-> <<>>, current_byte |-> 0, bit_pos |-> 0]
    /\ b_reader = [buffer |-> <<>>, byte_pos |-> 0, bit_pos |-> 0]
    /\ b_read = <<>>
    /\ b_none = FALSE

\* No CompressionStatsBuilder is in use.
StatsIdle ==
    /\ s_pc = "idle"
    /\ s_builder = <<>>
    /\ s_called = <<>>
    /\ s_section_calls = <<>>
    /\ s_result = [kind |-> "none", v |-> <<>>]

\* auto_choice_from_chunks is not called on its own.
AutoIdle ==
    /\ a_pc = "idle"
    /\ a_chunks = <<>>
    /\ a_choice = "none"

PingCount(args) == IF contains(args, <<"ping">>) THEN 1 ELSE 0

\* main, lines 714-749: the routing loop and the choice of the first pass.
MainParse ==
    /\ pc = "start"
    /\ LET ps == ParseLoop(ParseInit, argv)
       IN  /\ global_args' = ps.global_args
           /\ seperated_args' = ps.seperated_args
           /\ pc' = IF ps.panic THEN "panic"
                    ELSE IF ps.global_args.some THEN "global" ELSE "groups"
           /\ printed' = IF ps.panic THEN Append(printed, "panic: main.rs:735 unwrap on None")
                         ELSE printed
    /\ UNCHANGED << os, argv, dirExists, dir, library_names, libraries, failed_modules,
                    si, ci, gi, module, unload_result, handles, events, group_log, pings >>
    /\ UNCHANGED notHost

\* main, lines 749-774, and load_modules_* up to its loading loop.
GlobalBegin ==
    /\ pc = "global"
    /\ global_args' = Some(<<first_arg>> \o global_args.v)
    /\ pings' = pings + PingCount(global_args'.v)
    /\ IF ~dirExists
       THEN /\ \E created \in BOOLEAN :
                 /\ dirExists' = created
                 /\ printed' = Append(printed, IF created THEN "LoadError: folder created"
                                               ELSE "LoadError: create folder failed")
            /\ pc' = "returned"
            /\ UNCHANGED << library_names, libraries, failed_modules >>
       ELSE /\ library_names' = ScanAll(dir, os, 1)
            /\ libraries' = <<>>
            /\ failed_modules' = 0
            /\ IF library_names' = <<>>
               THEN /\ printed' = Append(printed, "LoadError: Found no modules!")
                    /\ pc' = "returned"
               ELSE /\ printed' = printed
                    /\ pc' = "load_all"
            /\ UNCHANGED dirExists
    /\ UNCHANGED << os, argv, dir, seperated_args, si, ci, gi, module, unload_result,
                    handles, events, group_log >>
    /\ UNCHANGED notHost

\* load_modules_*: one iteration of the loading loop.
LoadAllStep ==
    /\ pc = "load_all"
    /\ library_names # <<>>
    /\ LET f == Head(library_names)
           h == Len(handles) + 1
       IN  \E ok \in BOOLEAN :
             /\ library_names' = Tail(library_names)
             /\ IF ~ok
                THEN /\ failed_modules' = failed_modules + 1
                     /\ events' = Append(events, Ev("open_failed", 0, f, "all"))
                     /\ UNCHANGED << handles, libraries >>
                ELSE IF ~dir[f].startup
                THEN /\ failed_modules' = failed_modules + 1
                     /\ handles' = Append(handles, Handle(f, "all", AfterScopeExit(os)))
                     /\ events' = events \o << Ev("open", h, f, "all"),
                                                Ev("no_startup", h, f, "all") >>
                                          \o EventsAfterScopeExit(os, h, f, "all")
                     /\ UNCHANGED libraries
                ELSE /\ handles' = Append(handles,
                                      [Handle(f, "all", "open") EXCEPT !.args = global_args.v])
                     /\ events' = events \o << Ev("open", h, f, "all"),
                                                Ev("startup", h, f, "all") >>
                     /\ libraries' = Append(libraries, h)
                     /\ UNCHANGED failed_modules
    /\ UNCHANGED << os, argv, dirExists, dir, pc, global_args, seperated_args, si, ci, gi,
                    module, unload_result, group_log, printed, pings >>
    /\ UNCHANGED notHost

\* load_modules_*: the return of Ok(libraries), and the entry of unload_modules_*.
LoadAllReturn ==
    /\ pc = "load_all"
    /\ library_names = <<>>
    /\ printed' = IF failed_modules > 0 THEN Append(printed, "Failed to load module(s)!")
                  ELSE printed
    /\ failed_modules' = 0
    /\ si' = 1
    /\ ci' = 1
    /\ pc' = "unload_all"
    /\ UNCHANGED << os, argv, dirExists, dir, global_args, seperated_args, library_names,
                    libraries, gi, module, unload_result, handles, events, group_log,
                    pings >>
    /\ UNCHANGED notHost

\* unload_modules_*: one iteration of the shutdown loop.
UnloadShutdownStep ==
    /\ pc = "unload_all"
    /\ si <= Len(libraries)
    /\ LET h == libraries[si]
           f == handles[h].file
       IN  IF dir[f].shutdown
           THEN /\ events' = Append(events, Ev("shutdown", h, f, "all"))
                /\ UNCHANGED failed_modules
           ELSE /\ failed_modules' = failed_modules + 1
                /\ events' = Append(events, Ev("no_shutdown", h, f, "all"))
    /\ si' = si + 1
    /\ UNCHANGED << os, argv, dirExists, dir, pc, global_args, seperated_args, library_names,
                    libraries, ci, gi, module, unload_result, handles, group_log, printed,
                    pings >>
    /\ UNCHANGED notHost

\* The close loop started without waiting for the shutdown loop to end.
UnloadCloseStep_Early ==
    /\ pc = "unload_all"
    /\ ci <= Len(libraries)
    /\ LET h == libraries[ci]
           f == handles[h].file
       IN  /\ handles' = [handles EXCEPT ![h].st = "closed"]
           /\ events' = Append(events, Ev("close", h, f, "all"))
    /\ ci' = ci + 1
    /\ UNCHANGED << os, argv, dirExists, dir, pc, global_args, seperated_args, library_names,
                    libraries, failed_modules, si, gi, module, unload_result, group_log,
                    printed, pings >>
    /\ UNCHANGED notHost

\* unload_modules_*: one iteration of the close loop.
UnloadCloseStep ==
    /\ pc = "unload_all"
    /\ si > Len(libraries)
    /\ ci <= Len(libraries)
    /\ LET h == libraries[ci]
           f == handles[h].file
       IN  \E ok \in BOOLEAN :
             IF ok
             THEN /\ handles' = [handles EXCEPT ![h].st = "closed"]
                  /\ events' = Append(events, Ev("close", h, f, "all"))
                  /\ UNCHANGED failed_modules
             ELSE /\ handles' = [handles EXCEPT ![h].st = "close_failed"]
                  /\ events' = Append(events, Ev("close_failed", h, f, "all"))
                  /\ failed_modules' = failed_modules + 1
    /\ ci' = ci + 1
    /\ UNCHANGED << os, argv, dirExists, dir, pc, global_args, seperated_args, library_names,
                    libraries, si, gi, module, unload_result, group_log, printed, pings >>
    /\ UNCHANGED notHost

\* unload_modules_*: the result, from failed_modules and the number of modules.
UnloadAllResult(failed, len) == IF failed = len THEN "Err" ELSE "Ok"

\* unload_modules_*: its return, and main's print of an error.
UnloadAllReturn ==
    /\ pc = "unload_all"
    /\ si > Len(libraries)
    /\ ci > Len(libraries)
    /\ unload_result' = UnloadAllResult(failed_modules, Len(libraries))
    /\ printed' = IF unload_result' = "Err"
                  THEN Append(printed, "UnloadError: All modules failed to unload!")
                  ELSE IF failed_modules > 0
                  THEN Append(printed, "Failed to unload module(s)!")
                  ELSE printed
    /\ pc' = "groups"
    /\ UNCHANGED << os, argv, dirExists, dir, global_args, seperated_args, library_names,
                    libraries, failed_modules, si, ci, gi, module, handles, events,
                    group_log, pings >>
    /\ UNCHANGED notHost

\* main, lines 787-795 and 797-827: one group is taken up; the core group is
\* served by the host, any other is handed to load_module_*.
GroupLoad ==
    /\ pc = "groups"
    /\ gi <= Len(seperated_args)
    /\ LET module_name == seperated_args[gi].k
           args == <<first_arg>> \o seperated_args[gi].v
           h == Len(handles) + 1
       IN  /\ group_log' = Append(group_log, module_name)
           /\ IF module_name = <<"core">>
              THEN /\ pings' = pings + PingCount(args)
                   /\ gi' = gi + 1
                   /\ UNCHANGED << pc, dirExists, module, handles, events, printed >>
              ELSE IF ~dirExists
              THEN /\ \E created \in BOOLEAN :
                        /\ dirExists' = created
                        /\ printed' = Append(printed, IF created THEN "LoadError: folder created"
                                                      ELSE "LoadError: create folder failed")
                   /\ gi' = gi + 1
                   /\ UNCHANGED << pc, module, handles, events, pings >>
              ELSE LET r == FindModule(dir, os, module_name, 1)
                   IN  IF r.panic
                       THEN /\ pc' = "panic"
                            /\ printed' = Append(printed, "panic: main.rs:400 unwrap on None")
                            /\ UNCHANGED << dirExists, gi, module, handles, events, pings >>
                       ELSE IF r.found = 0
                       THEN /\ printed' = Append(printed, "LoadError: Module not found!")
                            /\ gi' = gi + 1
                            /\ UNCHANGED << pc, dirExists, module, handles, events, pings >>
                       ELSE \E ok \in BOOLEAN :
                              IF ~ok
                              THEN /\ printed' = Append(printed, "LoadError: Module failed to load")
                                   /\ events' = Append(events, Ev("open_failed", 0, r.found, "group"))
                                   /\ gi' = gi + 1
                                   /\ UNCHANGED << pc, dirExists, module, handles, pings >>
                              ELSE /\ handles' = Append(handles, Handle(r.found, "group", "open"))
                                   /\ events' = Append(events, Ev("open", h, r.found, "group"))
                                   /\ module' = h
                                   /\ pc' = "group_start"
                                   /\ UNCHANGED << dirExists, gi, printed, pings >>
    /\ UNCHANGED << os, argv, dir, global_args, seperated_args, library_names, libraries,
                    failed_modules, si, ci, unload_result >>
    /\ UNCHANGED notHost

\* Module::start, called from main at lines 800 and 816.
GroupStart ==
    /\ pc = "group_start"
    /\ LET f == handles[module].file
           args == <<first_arg>> \o seperated_args[gi].v
       IN  IF dir[f].startup
           THEN /\ events' = Append(events, Ev("startup", module, f, "group"))
                /\ handles' = [handles EXCEPT ![module].args = args]
                /\ UNCHANGED printed
           ELSE /\ printed' = Append(printed, "LoadError: Failed to find module_startup")
                /\ events' = Append(events, Ev("no_startup", module, f, "group"))
                /\ UNCHANGED handles
    /\ pc' = "group_unload"
    /\ UNCHANGED << os, argv, dirExists, dir, global_args, seperated_args, library_names,
                    libraries, failed_modules, si, ci, gi, module, unload_result, group_log,
                    pings >>
    /\ UNCHANGED notHost

\* unload_module_*, called from main at lines 803 and 819.
GroupUnload ==
    /\ pc = "group_unload"
    /\ LET f == handles[module].file
       IN  IF ~dir[f].shutdown
           THEN /\ printed' = Append(printed, "UnloadError: Failed to find module_shutdown")
                /\ handles' = [handles EXCEPT ![module].st = AfterScopeExit(os)]
                /\ events' = Append(events, Ev("no_shutdown", module, f, "group"))
                                 \o EventsAfterScopeExit(os, module, f, "group")
           ELSE \E ok \in BOOLEAN :
                  IF ok
                  THEN /\ handles' = [handles EXCEPT ![module].st = "closed"]
                       /\ events' = events \o << Ev("shutdown", module, f, "group"),
                                                 Ev("close", module, f, "group") >>
                       /\ UNCHANGED printed
                  ELSE /\ handles' = [handles EXCEPT ![module].st = "close_failed"]
                       /\ events' = events \o << Ev("shutdown", module, f, "group"),
                                                 Ev("close_failed", module, f, "group") >>
                       /\ printed' = Append(printed, "UnloadError: Failed to unload module")
    /\ module' = 0
    /\ gi' = gi + 1
    /\ pc' = "groups"
    /\ UNCHANGED << os, argv, dirExists, dir, global_args, seperated_args, library_names,
                    libraries, failed_modules, si, ci, unload_result, group_log, pings >>
    /\ UNCHANGED notHost

\* main: the end of the group loop.
MainReturn ==
    /\ pc = "groups"
    /\ gi > Len(seperated_args)
    /\ pc' = "done"
    /\ UNCHANGED << os, argv, dirExists, dir, global_args, seperated_args, library_names,
                    libraries, failed_modules, si, ci, gi, module, unload_result, handles,
                    events, group_log, printed, pings >>
    /\ UNCHANGED notHost

Init == HostInit /\ DeltaIdle /\ RleIdle /\ HuffIdle /\ BitIdle /\ StatsIdle /\ AutoIdle

Next ==
    \/ MainParse
    \/ GlobalBegin
    \/ LoadAllStep
    \/ LoadAllReturn
    \/ UnloadShutdownStep
    \/ UnloadCloseStep
    \/ UnloadAllReturn
    \/ GroupLoad
    \/ GroupStart
    \/ GroupUnload
    \/ MainReturn

Spec == Init /\ [][Next]_vars

----------------------------------------------------------------------------
\* Delta module

APPLICATION_MAGIC == << 80, 80, 67, 66 >>
MODULE_ID == 1
HEADER_SIZE == 5
FILE_EXTENSION == "ppcb"

\* Byte values the files are drawn from; arithmetic is on all of 0..255.
SampleBytes == { 0, 1, 200, 255 }

BytesUpTo(n) == UNION { [1..k -> SampleBytes] : k \in 0..n }

\* Files handed to the inverse transform directly: a header that is right,
\* wrong in the magic, wrong in the id, or cut short, and a payload.
HeaderSamples == { APPLICATION_MAGIC \o << MODULE_ID >>, APPLICATION_MAGIC \o << 2 >>,
                   << 80, 80, 67, 65, 1 >>, << 80, 80, 67, 65, 2 >>, APPLICATION_MAGIC, << >> }

DecodeSamples == { h \o p : h \in HeaderSamples, p \in BytesUpTo(MaxDeltaLen - 1) }

InExtensions == { None, Some("ppcb"), Some("Ppcb"), Some("bin") }
OutExtensions == { None, Some("bin") }

\* What the output path held before the call.
OldOutput == << 7 >>

wrapping_sub(a, b) == (a - b + 256) % 256
wrapping_add(a, b) == (a + b) % 256

eq_ignore_ascii_case(a, b) == to_ascii_lowercase(a) = to_ascii_lowercase(b)


\* has_correct_extension comparing the extension as it is spelt.
has_correct_extension_CaseSensitive(ext) == ext.some /\ ext.v = FILE_EXTENSION

\* start_proccessing_file, lines 150-152.
has_correct_extension(ext) == ext.some /\ eq_ignore_ascii_case(ext.v, FILE_EXTENSION)

\* delta_step with the decoder carrying the delta byte it read instead of the
\* byte it wrote.
delta_step_CarriesInput(current_byte, previous_value, transform_type) ==
    IF transform_type = "Encode"
    THEN [out |-> wrapping_sub(current_byte, previous_value), prev |-> current_byte]
    ELSE [out |-> wrapping_add(current_byte, previous_value), prev |-> current_byte]

\* transform_data_chunk: the body of its loop, for one byte.
delta_step(current_byte, previous_value, transform_type) ==
    IF transform_type = "Encode"
    THEN [out |-> wrapping_sub(current_byte, previous_value), prev |-> current_byte]
    ELSE LET delta_change == wrapping_add(current_byte, previous_value)
         IN  [out |-> delta_change, prev |-> delta_change]


\* transform_data_chunk returning the previous byte it was given.
RECURSIVE transform_data_chunk_StalePrev(_, _, _)
transform_data_chunk_StalePrev(data, previous_value, transform_type) ==
    IF data = <<>> THEN [out |-> <<>>, prev |-> previous_value]
    ELSE LET r == delta_step(Head(data), previous_value, transform_type)
             rest == transform_data_chunk_StalePrev(Tail(data), r.prev, transform_type)
         IN  [out |-> <<r.out>> \o rest.out, prev |-> previous_value]

\* transform_data_chunk: the bytes written and the previous_value returned.
RECURSIVE transform_data_chunk(_, _, _)
transform_data_chunk(data, previous_value, transform_type) ==
    IF data = <<>> THEN [out |-> <<>>, prev |-> previous_value]
    ELSE LET r == delta_step(Head(data), previous_value, transform_type)
             rest == transform_data_chunk(Tail(data), r.prev, transform_type)
         IN  [out |-> <<r.out>> \o rest.out, prev |-> rest.prev]

\* read_and_validate_header testing the module id before the magic number.
read_and_validate_header_IdFirst(bytes) ==
    IF Len(bytes) < HEADER_SIZE THEN "Err: UnexpectedEof: failed to read header"
    ELSE IF bytes[5] # MODULE_ID THEN "Err: InvalidData: unsupported module id"
    ELSE IF SubSeq(bytes, 1, 4) # APPLICATION_MAGIC THEN "Err: InvalidData: magic number"
    ELSE "Ok"

\* read_and_validate_header, on the bytes the reader still holds.
read_and_validate_header(bytes) ==
    IF Len(bytes) < HEADER_SIZE THEN "Err: UnexpectedEof: failed to read header"
    ELSE IF SubSeq(bytes, 1, 4) # APPLICATION_MAGIC THEN "Err: InvalidData: magic number"
    ELSE IF bytes[5] # MODULE_ID THEN "Err: InvalidData: unsupported module id"
    ELSE "Ok"

DeltaStart ==
    /\ d_pc = "begin"
    /\ d_transform \in { "Encode", "Decode" }
    /\ d_in_ext \in InExtensions
    /\ d_out_ext \in OutExtensions
    /\ d_input \in (IF d_transform = "Encode" THEN BytesUpTo(MaxDeltaLen) ELSE DecodeSamples)
    /\ d_pos = 0
    /\ d_in_opened = FALSE
    /\ d_out_created = FALSE
    /\ d_output = OldOutput
    /\ d_prev = 0
    /\ d_result = "none"
    /\ d_stage = 1
    /\ d_orig = d_input
    /\ d_chunks = 0

\* The host is not running.
HostIdle ==
    /\ os = "linux"
    /\ argv = <<>>
    /\ dirExists = FALSE
    /\ dir = <<>>
    /\ pc = "idle"
    /\ global_args = None
    /\ seperated_args = <<>>
    /\ library_names = <<>>
    /\ libraries = <<>>
    /\ failed_modules = 0
    /\ si = 1
    /\ ci = 1
    /\ gi = 1
    /\ module = 0
    /\ unload_result = "none"
    /\ handles = <<>>
    /\ events = <<>>
    /\ group_log = <<>>
    /\ printed = <<>>
    /\ pings = 0

\* start_proccessing_file, lines 149-189: the extension guard, the output
\* extension, the two files, and the header.
D_Begin ==
    /\ d_pc = "begin"
    /\ IF d_transform = "Decode" /\ ~has_correct_extension(d_in_ext)
       THEN /\ d_result' = "Err: InvalidInput: extension"
            /\ d_pc' = "done"
            /\ UNCHANGED << d_out_ext, d_in_opened, d_out_created, d_output, d_pos >>
       ELSE /\ d_out_ext' = IF d_transform = "Encode" /\ ~d_out_ext.some
                            THEN Some(FILE_EXTENSION) ELSE d_out_ext
            /\ d_in_opened' = TRUE
            /\ d_out_created' = TRUE
            /\ IF d_transform = "Encode"
               THEN /\ d_output' = APPLICATION_MAGIC \o << MODULE_ID >>
                    /\ d_pos' = 0
                    /\ d_pc' = "seed"
                    /\ UNCHANGED d_result
               ELSE LET r == read_and_validate_header(d_input)
                    IN  /\ d_output' = <<>>
                        /\ IF r = "Ok"
                           THEN /\ d_pos' = HEADER_SIZE
                                /\ d_pc' = "seed"
                                /\ UNCHANGED d_result
                           ELSE /\ d_pos' = IF Len(d_input) < HEADER_SIZE
                                            THEN Len(d_input) ELSE HEADER_SIZE
                                /\ d_pc' = "done"
                                /\ d_result' = r
    /\ UNCHANGED << d_transform, d_in_ext, d_input, d_prev, d_stage, d_orig, d_chunks >>
    /\ UNCHANGED notDelta

\* set_delta_seed and its match in start_proccessing_file, lines 191-198.
D_Seed ==
    /\ d_pc = "seed"
    /\ IF d_pos >= Len(d_input)
       THEN /\ d_result' = "Ok"
            /\ d_pc' = "done"
            /\ UNCHANGED << d_output, d_prev, d_pos >>
       ELSE /\ d_output' = Append(d_output, d_input[d_pos + 1])
            /\ d_prev' = d_input[d_pos + 1]
            /\ d_pos' = d_pos + 1
            /\ d_pc' = "loop"
            /\ UNCHANGED d_result
    /\ UNCHANGED << d_transform, d_in_ext, d_out_ext, d_input, d_in_opened, d_out_created,
                    d_stage, d_orig, d_chunks >>
    /\ UNCHANGED notDelta

\* start_proccessing_file, lines 200-213: one chunk, of whatever length
\* fill_buf hands out.
D_Chunk ==
    /\ d_pc = "loop"
    /\ d_pos < Len(d_input)
    /\ \E chunk_length \in 1..(Len(d_input) - d_pos) :
          LET current_chunk == SubSeq(d_input, d_pos + 1, d_pos + chunk_length)
              r == transform_data_chunk(current_chunk, d_prev, d_transform)
          IN  /\ d_output' = d_output \o r.out
              /\ d_prev' = r.prev
              /\ d_pos' = d_pos + chunk_length
    /\ d_chunks' = d_chunks + 1
    /\ UNCHANGED << d_pc, d_transform, d_in_ext, d_out_ext, d_input, d_in_opened,
                    d_out_created, d_result, d_stage, d_orig >>
    /\ UNCHANGED notDelta

\* start_proccessing_file, lines 203-216: the empty chunk, the flush, Ok.
D_Finish ==
    /\ d_pc = "loop"
    /\ d_pos = Len(d_input)
    /\ d_result' = "Ok"
    /\ d_pc' = "done"
    /\ UNCHANGED << d_transform, d_in_ext, d_out_ext, d_input, d_pos, d_in_opened,
                    d_out_created, d_output, d_prev, d_stage, d_orig, d_chunks >>
    /\ UNCHANGED notDelta

\* module_startup, lines 65-85: the inverse command, given the file a transform
\* command wrote, under whatever name it has by then.
D_Inverse ==
    /\ d_pc = "done"
    /\ d_stage = 1
    /\ d_transform = "Encode"
    /\ d_result = "Ok"
    /\ d_stage' = 2
    /\ d_transform' = "Decode"
    /\ d_input' = d_output
    /\ d_in_ext' \in InExtensions
    /\ d_out_ext' = None
    /\ d_pos' = 0
    /\ d_in_opened' = FALSE
    /\ d_out_created' = FALSE
    /\ d_output' = OldOutput
    /\ d_prev' = 0
    /\ d_result' = "none"
    /\ d_pc' = "begin"
    /\ d_chunks' = 0
    /\ UNCHANGED d_orig
    /\ UNCHANGED notDelta

DeltaInit == HostIdle /\ DeltaStart /\ RleIdle /\ HuffIdle /\ BitIdle /\ StatsIdle /\ AutoIdle

DeltaNext ==
    \/ D_Begin
    \/ D_Seed
    \/ D_Chunk
    \/ D_Finish
    \/ D_Inverse

DeltaSpec == DeltaInit /\ [][DeltaNext]_vars

----------------------------------------------------------------------------
\* Huffman module: BitWriter and BitReader

Bit == { 0, 1 }

BitsUpTo(n) == UNION { [1..k -> Bit] : k \in 0..n }

Pow2(k) == 2 ^ k

\* byte | (1 << k)
or_bit(byte, k) == IF (byte \div Pow2(k)) % 2 = 1 THEN byte ELSE byte + Pow2(k)

\* BitWriter::new
BitWriter_new == [buffer |-> <<>>, current_byte |-> 0, bit_pos |-> 0]

\* write_bit filling each byte from its least significant bit.
write_bit_LsbFirst(w, bit) ==
    LET current_byte == IF bit # 0 THEN or_bit(w.current_byte, w.bit_pos)
                        ELSE w.current_byte
        bit_pos == w.bit_pos + 1
    IN  IF bit_pos = 8
        THEN [buffer |-> Append(w.buffer, current_byte), current_byte |-> 0, bit_pos |-> 0]
        ELSE [buffer |-> w.buffer, current_byte |-> current_byte, bit_pos |-> bit_pos]

\* BitWriter::write_bit
write_bit(w, bit) ==
    LET current_byte == IF bit # 0 THEN or_bit(w.current_byte, 7 - w.bit_pos)
                        ELSE w.current_byte
        bit_pos == w.bit_pos + 1
    IN  IF bit_pos = 8
        THEN [buffer |-> Append(w.buffer, current_byte), current_byte |-> 0, bit_pos |-> 0]
        ELSE [buffer |-> w.buffer, current_byte |-> current_byte, bit_pos |-> bit_pos]

\* BitWriter::write_bits: write_bit for the bits lo..hi, in order.  The range is
\* halved, and the writer after the first half is computed before the second
\* half is entered, to keep the evaluation shallow.
RECURSIVE write_bits_range(_, _, _, _)
write_bits_range(w, bits, lo, hi) ==
    IF lo > hi THEN w
    ELSE IF lo = hi THEN write_bit(w, bits[lo])
    ELSE LET mid == (lo + hi) \div 2
         IN  CHOOSE r \in { write_bits_range(half, bits, mid + 1, hi) :
                            half \in { write_bits_range(w, bits, lo, mid) } } : TRUE

write_bits(w, bits) == write_bits_range(w, bits, 1, Len(bits))

\* BitWriter::flush
flush(w) ==
    IF w.bit_pos > 0
    THEN [buffer |-> Append(w.buffer, w.current_byte), current_byte |-> 0, bit_pos |-> 0]
    ELSE w

\* BitReader::new followed by load_from_file
load_from_file(bytes) == [buffer |-> bytes, byte_pos |-> 0, bit_pos |-> 0]

\* BitReader::read_bit: the Option<u8> returned and the reader afterwards.
read_bit(r) ==
    IF r.byte_pos >= Len(r.buffer)
    THEN [bit |-> None, reader |-> r]
    ELSE LET bit == (r.buffer[r.byte_pos + 1] \div Pow2(7 - r.bit_pos)) % 2
             bit_pos == r.bit_pos + 1
         IN  [bit |-> Some(bit),
              reader |-> IF bit_pos = 8
                         THEN [buffer |-> r.buffer, byte_pos |-> r.byte_pos + 1, bit_pos |-> 0]
                         ELSE [buffer |-> r.buffer, byte_pos |-> r.byte_pos, bit_pos |-> bit_pos]]

\* A writer is handed a bit sequence, one write_bit at a time.
BitStart ==
    /\ b_pc = "write"
    /\ b_bits \in BitsUpTo(MaxBits)
    /\ b_written = 0
    /\ b_writer = BitWriter_new
    /\ b_reader = [buffer |-> <<>>, byte_pos |-> 0, bit_pos |-> 0]
    /\ b_read = <<>>
    /\ b_none = FALSE

\* One call of write_bit.
B_WriteBit ==
    /\ b_pc = "write"
    /\ b_written < Len(b_bits)
    /\ b_writer' = write_bit(b_writer, b_bits[b_written + 1])
    /\ b_written' = b_written + 1
    /\ UNCHANGED << b_pc, b_bits, b_reader, b_read, b_none >>
    /\ UNCHANGED notBit

\* flush_to_file, and load_from_file on the file it wrote.
B_Flush ==
    /\ b_pc = "write"
    /\ b_written = Len(b_bits)
    /\ b_writer' = flush(b_writer)
    /\ b_reader' = load_from_file(b_writer'.buffer)
    /\ b_pc' = "read"
    /\ UNCHANGED << b_bits, b_written, b_read, b_none >>
    /\ UNCHANGED notBit

\* One call of read_bit.
B_ReadBit ==
    /\ b_pc = "read"
    /\ LET r == read_bit(b_reader)
       IN  /\ b_reader' = r.reader
           /\ IF r.bit.some
              THEN /\ b_read' = Append(b_read, r.bit.v)
                   /\ UNCHANGED << b_pc, b_none >>
              ELSE /\ b_none' = TRUE
                   /\ b_pc' = "done"
                   /\ UNCHANGED b_read
    /\ UNCHANGED << b_bits, b_written, b_writer >>
    /\ UNCHANGED notBit

BitInit == HostIdle /\ DeltaIdle /\ RleIdle /\ HuffIdle /\ BitStart /\ StatsIdle /\ AutoIdle

BitNext ==
    \/ B_WriteBit
    \/ B_Flush
    \/ B_ReadBit

BitSpec == BitInit /\ [][BitNext]_vars
----------------------------------------------------------------------------
\* RLS module

MAX_RUN_LENGTH == 255
ESCAPE_BYTE == 0
CHUNK_SIZE_BYTES == 1024
NUM_CHUNKS == 5

Versions == { "One", "Two", "Auto" }

\* std::iter::repeat(byte).take(count)
repeat(byte, count) == [i \in 1..count |-> byte]

\* Input files of a compression: up to MaxRuns stretches of one byte value
\* each; a stretch is shorter than, as long as, or longer than the escape
\* threshold and the longest run a count byte can hold.
RleBytes == { 0, 7 }
RunLengths == { 1, 3, 4, 256 }
Stretches == { repeat(b, n) : b \in RleBytes, n \in RunLengths } \cup { repeat(4, 268) }

RECURSIVE Concat(_)
Concat(ss) == IF ss = <<>> THEN <<>> ELSE Head(ss) \o Concat(Tail(ss))

\* A file larger than one chunk, by two bytes: the chunk at offset 0 is
\* shorter in v2, the chunk at offset 1 is shorter in v1, and the chunk at
\* offset 2 is as long in both.
LargeInputs == { << 9 >> \o repeat(7, 1017) \o << 8, 9, 8, 9, 5, 5, 0, 6 >> }

RleInputs ==
    UNION { { Concat(ss) : ss \in [1..k -> Stretches] } : k \in 0..MaxRuns } \cup LargeInputs

\* Input files of a decompression that no compression wrote.
RleStreamBytes == { 0, 2, 7 }
RleStreams == UNION { [1..k -> RleStreamBytes] : k \in 0..MaxStream }

InSuffixes == { ".purgepack", ".bin" }

\* Result<Vec<u8>, &'static str>, and the panic that can take its place.
Ok(data) == [kind |-> "Ok", v |-> data, msg |-> ""]
Err(msg) == [kind |-> "Err", v |-> <<>>, msg |-> msg]
Panic(msg) == [kind |-> "panic", v |-> <<>>, msg |-> msg]

\* compress_v1, lines 133-140: the body of the loop, for one byte.
compress_v1_step_Triplet(st, byte) ==
    IF byte = st.current_byte /\ st.count < MAX_RUN_LENGTH
    THEN [st EXCEPT !.count = st.count + 1]
    ELSE [current_byte |-> byte, count |-> 1,
          compressed_data |-> st.compressed_data \o << ESCAPE_BYTE, st.count, st.current_byte >>]

compress_v1_step(st, byte) ==
    IF byte = st.current_byte /\ st.count < MAX_RUN_LENGTH
    THEN [st EXCEPT !.count = st.count + 1]
    ELSE [current_byte |-> byte, count |-> 1,
          compressed_data |-> st.compressed_data \o << st.count, st.current_byte >>]

\* compress_v1, line 132: the loop over the bytes lo..hi, in order.  The range
\* is halved, and the state after the first half is computed before the second
\* half is entered, to keep the evaluation shallow.
RECURSIVE compress_v1_loop(_, _, _, _)
compress_v1_loop(st, uncompressed_data, lo, hi) ==
    IF lo > hi THEN st
    ELSE IF lo = hi THEN compress_v1_step(st, uncompressed_data[lo])
    ELSE LET mid == (lo + hi) \div 2
         IN  CHOOSE r \in { compress_v1_loop(half, uncompressed_data, mid + 1, hi) :
                            half \in { compress_v1_loop(st, uncompressed_data, lo, mid) } } : TRUE

compress_v1(uncompressed_data) ==
    IF uncompressed_data = <<>> THEN <<>>
    ELSE LET st == compress_v1_loop([current_byte |-> uncompressed_data[1], count |-> 1,
                                     compressed_data |-> <<>>],
                                    uncompressed_data, 2, Len(uncompressed_data))
         IN  st.compressed_data \o << st.count, st.current_byte >>

\* decompress_v1, lines 194-198: the pairs from position i on.
RECURSIVE decompress_v1_loop(_, _, _)
decompress_v1_loop(compressed_data, i, uncompressed_data) ==
    IF i > Len(compressed_data) THEN uncompressed_data
    ELSE LET count == compressed_data[i]
             byte == compressed_data[i + 1]
         IN  decompress_v1_loop(compressed_data, i + 2,
                                uncompressed_data \o repeat(byte, count))

decompress_v1(compressed_data) ==
    IF compressed_data = <<>> THEN Ok(<<>>)
    ELSE IF Len(compressed_data) % 2 # 0 THEN Err("Invalid compressed data length")
    ELSE Ok(decompress_v1_loop(compressed_data, 1, <<>>))

\* push_to_compressed_data writing every run as a triplet only from length 4
\* on, whatever the byte.
push_to_compressed_data_NoEscape(compressed_data, count, current_byte) ==
    IF count > 3
    THEN compressed_data \o << ESCAPE_BYTE, count, current_byte >>
    ELSE compressed_data \o repeat(current_byte, count)

push_to_compressed_data(compressed_data, count, current_byte) ==
    IF count > 3 \/ current_byte = ESCAPE_BYTE
    THEN compressed_data \o << ESCAPE_BYTE, count, current_byte >>
    ELSE compressed_data \o repeat(current_byte, count)

\* compress_v2, lines 255-261: the body of the loop, for one byte.
compress_v2_step_Limit256(st, byte) ==
    IF byte = st.current_byte /\ st.count <= MAX_RUN_LENGTH
    THEN [st EXCEPT !.count = st.count + 1]
    ELSE [current_byte |-> byte, count |-> 1,
          compressed_data |->
              push_to_compressed_data(st.compressed_data, st.count, st.current_byte)]

compress_v2_step(st, byte) ==
    IF byte = st.current_byte /\ st.count < MAX_RUN_LENGTH
    THEN [st EXCEPT !.count = st.count + 1]
    ELSE [current_byte |-> byte, count |-> 1,
          compressed_data |->
              push_to_compressed_data(st.compressed_data, st.count, st.current_byte)]

\* compress_v2, line 254: the loop over the bytes lo..hi, in order.
RECURSIVE compress_v2_loop(_, _, _, _)
compress_v2_loop(st, uncompressed_data, lo, hi) ==
    IF lo > hi THEN st
    ELSE IF lo = hi THEN compress_v2_step(st, uncompressed_data[lo])
    ELSE LET mid == (lo + hi) \div 2
         IN  CHOOSE r \in { compress_v2_loop(half, uncompressed_data, mid + 1, hi) :
                            half \in { compress_v2_loop(st, uncompressed_data, lo, mid) } } : TRUE

compress_v2(uncompressed_data) ==
    IF uncompressed_data = <<>> THEN <<>>
    ELSE LET st == compress_v2_loop([current_byte |-> uncompressed_data[1], count |-> 1,
                                     compressed_data |-> <<>>],
                                    uncompressed_data, 2, Len(uncompressed_data))
         IN  push_to_compressed_data(st.compressed_data, st.count, st.current_byte)

\* decompress_v2, lines 309-323: the loop from uncompressed_data_index (an
\* index from 0) on.  Indexing compressed_data at its length or beyond panics.
RECURSIVE decompress_v2_loop(_, _, _)
decompress_v2_loop(compressed_data, uncompressed_data_index, uncompressed_data) ==
    IF ~(uncompressed_data_index < Len(compressed_data)) THEN Ok(uncompressed_data)
    ELSE IF compressed_data[uncompressed_data_index + 1] = ESCAPE_BYTE
    THEN IF uncompressed_data_index + 2 > Len(compressed_data)
         THEN Err("Invalid RLE triplet in compressed data.")
         ELSE IF uncompressed_data_index + 2 >= Len(compressed_data)
         THEN Panic("index out of bounds")
         ELSE LET count == compressed_data[uncompressed_data_index + 2]
                  byte == compressed_data[uncompressed_data_index + 3]
              IN  decompress_v2_loop(compressed_data, uncompressed_data_index + 3,
                                     uncompressed_data \o repeat(byte, count))
    ELSE decompress_v2_loop(compressed_data, uncompressed_data_index + 1,
                            Append(uncompressed_data,
                                   compressed_data[uncompressed_data_index + 1]))

decompress_v2(compressed_data) ==
    IF compressed_data = <<>> THEN Ok(<<>>)
    ELSE decompress_v2_loop(compressed_data, 0, <<>>)

\* auto_choice_from_chunks, lines 557-570: the scores after the chunks from i on.
RECURSIVE auto_scores(_, _, _, _)
auto_scores(chunks, i, version1_score, version2_score) ==
    IF i > Len(chunks) THEN << version1_score, version2_score >>
    ELSE IF chunks[i] = <<>> THEN auto_scores(chunks, i + 1, version1_score, version2_score)
    ELSE LET l1 == Len(compress_v1(chunks[i]))
             l2 == Len(compress_v2(chunks[i]))
         IN  IF l2 < l1 THEN auto_scores(chunks, i + 1, version1_score, version2_score + 1)
             ELSE IF l1 < l2
             THEN auto_scores(chunks, i + 1, version1_score + 1, version2_score)
             ELSE auto_scores(chunks, i + 1, version1_score, version2_score)

\* auto_choice_from_chunks returning v2 on equal scores.
auto_choice_from_chunks_TieIsTwo(chunks) ==
    LET s == auto_scores(chunks, 1, 0, 0)
    IN  IF s[2] >= s[1] THEN "Two" ELSE "One"

auto_choice_from_chunks(chunks) ==
    LET s == auto_scores(chunks, 1, 0, 0)
    IN  IF s[2] > s[1] THEN "Two" ELSE "One"

\* read_multiple_random_chunks: the chunk lists it can return for a file.
read_multiple_random_chunks(file) ==
    LET file_size == Len(file)
        max_start_offset == IF file_size < CHUNK_SIZE_BYTES THEN 0
                            ELSE file_size - CHUNK_SIZE_BYTES
    IN  IF file_size = 0 THEN { <<>> }
        ELSE IF file_size <= CHUNK_SIZE_BYTES THEN { << file >> }
        ELSE { [i \in 1..NUM_CHUNKS |->
                   SubSeq(file, random_offset[i] + 1, random_offset[i] + CHUNK_SIZE_BYTES)] :
               random_offset \in [1..NUM_CHUNKS -> 0..max_start_offset] }

compress_with(version, uncompressed_data) ==
    IF version = "One" THEN compress_v1(uncompressed_data) ELSE compress_v2(uncompressed_data)

\* decompress_from_file, lines 462-466.
decompress_with(version, compressed_data) ==
    IF version = "Two" THEN decompress_v2(compressed_data) ELSE decompress_v1(compressed_data)

\* module_startup is called with a compress or a decompress command.
RleStart ==
    /\ r_pc = "begin"
    /\ r_command \in { "Compress", "Decompress" }
    /\ r_version \in Versions
    /\ r_in_suffix \in (IF r_command = "Compress" THEN { ".bin" } ELSE InSuffixes)
    /\ r_input \in (IF r_command = "Compress" THEN RleInputs ELSE RleStreams)
    /\ r_chosen = r_version
    /\ r_data = <<>>
    /\ r_out_created = FALSE
    /\ r_output = OldOutput
    /\ r_result = "none"
    /\ r_stage = 1
    /\ r_orig = r_input
    /\ r_chunks = <<>>
    /\ r_log = <<>>

\* compress_from_file, lines 364-402: the input is read and compressed.
R_Compress ==
    /\ r_pc = "begin"
    /\ r_command = "Compress"
    /\ IF r_version = "Auto"
       THEN \E random_chunks \in read_multiple_random_chunks(r_input) :
               /\ r_chunks' = random_chunks
               /\ r_chosen' = auto_choice_from_chunks(random_chunks)
       ELSE /\ r_chosen' = r_version
            /\ UNCHANGED r_chunks
    /\ r_data' = compress_with(r_chosen', r_input)
    /\ r_pc' = "write"
    /\ UNCHANGED << r_command, r_version, r_in_suffix, r_input, r_out_created, r_output,
                    r_result, r_stage, r_orig, r_log >>
    /\ UNCHANGED notRle

\* compress_from_file, lines 404-433: the output file is created and written.
R_CompressWrite ==
    /\ r_pc = "write"
    /\ r_command = "Compress"
    /\ r_out_created' = TRUE
    /\ r_output' = r_data
    /\ r_result' = "Ok"
    /\ r_pc' = "done"
    /\ r_chunks' = <<>>
    /\ r_log' = Append(r_log, [version |-> r_version, chosen |-> r_chosen, output |-> r_data])
    /\ UNCHANGED << r_command, r_version, r_in_suffix, r_input, r_chosen, r_data, r_stage,
                    r_orig >>
    /\ UNCHANGED notRle

\* decompress_from_file, lines 441-476: the suffix test, the read, the
\* decompression and the match on its result.
R_Decompress ==
    /\ r_pc = "begin"
    /\ r_command = "Decompress"
    /\ IF r_in_suffix # ".purgepack"
       THEN /\ r_result' = "Not a purgepack compressed file"
            /\ r_pc' = "done"
            /\ UNCHANGED r_data
       ELSE LET result_data == decompress_with(r_version, r_input)
            IN  IF result_data.kind = "Ok"
                THEN /\ r_data' = result_data.v
                     /\ r_pc' = "write"
                     /\ UNCHANGED r_result
                ELSE /\ r_result' = IF result_data.kind = "Err"
                                    THEN "Decompression error" ELSE "panic"
                     /\ r_pc' = "done"
                     /\ UNCHANGED r_data
    /\ UNCHANGED << r_command, r_version, r_in_suffix, r_input, r_chosen, r_out_created,
                    r_output, r_stage, r_orig, r_chunks, r_log >>
    /\ UNCHANGED notRle

\* decompress_from_file, lines 478-496: the output file is created and written.
R_DecompressWrite ==
    /\ r_pc = "write"
    /\ r_command = "Decompress"
    /\ r_out_created' = TRUE
    /\ r_output' = r_data
    /\ r_result' = "Ok"
    /\ r_pc' = "done"
    /\ UNCHANGED << r_command, r_version, r_in_suffix, r_input, r_chosen, r_data, r_stage,
                    r_orig, r_chunks, r_log >>
    /\ UNCHANGED notRle

\* module_startup, lines 37-50: the decompress command, given the file a
\* compress command wrote, under whatever name it has by then and with
\* whatever version the command line names.
R_Inverse ==
    /\ r_pc = "done"
    /\ r_stage = 1
    /\ r_command = "Compress"
    /\ r_result = "Ok"
    /\ r_stage' = 2
    /\ r_command' = "Decompress"
    /\ r_version' \in Versions
    /\ r_in_suffix' \in InSuffixes
    /\ r_input' = r_output
    /\ r_data' = <<>>
    /\ r_out_created' = FALSE
    /\ r_output' = OldOutput
    /\ r_result' = "none"
    /\ r_pc' = "begin"
    /\ UNCHANGED << r_chosen, r_orig, r_chunks, r_log >>
    /\ UNCHANGED notRle

\* module_startup, lines 23-36: the compress command once more, with the same
\* arguments and the same input file.
R_Again ==
    /\ r_pc = "done"
    /\ r_stage = 1
    /\ r_command = "Compress"
    /\ Len(r_log) = 1
    /\ r_chosen' = r_version
    /\ r_data' = <<>>
    /\ r_out_created' = FALSE
    /\ r_output' = OldOutput
    /\ r_result' = "none"
    /\ r_pc' = "begin"
    /\ UNCHANGED << r_command, r_version, r_in_suffix, r_input, r_stage, r_orig, r_chunks,
                    r_log >>
    /\ UNCHANGED notRle

RleInit == HostIdle /\ DeltaIdle /\ RleStart /\ HuffIdle /\ BitIdle /\ StatsIdle /\ AutoIdle

RleNext ==
    \/ R_Compress
    \/ R_CompressWrite
    \/ R_Decompress
    \/ R_DecompressWrite
    \/ R_Inverse
    \/ R_Again

RleSpec == RleInit /\ [][RleNext]_vars
----------------------------------------------------------------------------
\* Huffman module

ByteValues == 0..255

\* Input files: byte sequences over a few byte values.
HuffBytes == { 0, 65, 255 }
HuffInputs == UNION { [1..k -> HuffBytes] : k \in 0..MaxHuffLen }

\* Option<Box<Node>> and Option<u8> inside a node: no element or one.
NoneOf == << >>
SomeOf(x) == << x >>

\* calculate_byte_frequencies
calculate_byte_frequencies(buffer) ==
    [byte \in ByteValues |-> Cardinality({ i \in DOMAIN buffer : buffer[i] = byte })]

\* struct Node
Node(left, right, num, byte) == [left |-> left, right |-> right, num |-> num, byte |-> byte]

\* generate_huffman_tree, lines 331-340: the heap after the pushes, one leaf
\* for each byte value that occurs, in the order of the pushes.
LeafOf(frequencies, byte) == Node(NoneOf, NoneOf, frequencies[byte], SomeOf(byte))

InitialHeap(frequencies) ==
    LET leaves == [i \in 1..256 |-> LeafOf(frequencies, i - 1)]
        occurs(n) == n.num > 0
    IN  SelectSeq(leaves, occurs)

\* The positions BinaryHeap<Reverse<..>>::pop can take its element from: those
\* of least num.  Which of several equal ones it takes is not fixed by Ord.
PopChoices(heap) == { i \in DOMAIN heap : \A j \in DOMAIN heap : heap[i].num <= heap[j].num }

RemoveAt(s, i) == SubSeq(s, 1, i - 1) \o SubSeq(s, i + 1, Len(s))

\* generate_byte_codes: traverse.
RECURSIVE traverse(_, _, _)
traverse(node, current, codes) ==
    IF node.byte # NoneOf THEN [codes EXCEPT ![node.byte[1]] = current]
    ELSE LET after_left == IF node.left # NoneOf
                           THEN traverse(node.left[1], Append(current, 0), codes)
                           ELSE codes
         IN  IF node.right # NoneOf
             THEN traverse(node.right[1], Append(current, 1), after_left)
             ELSE after_left

generate_byte_codes(root) == traverse(root, <<>>, [byte \in ByteValues |-> <<>>])

\* code_lengths with every length one less than the length of the code.
CodeLengths_OneLess(byte_codes) ==
    LET all == [i \in 1..256 |-> << i - 1, Len(byte_codes[i - 1]) - 1 >>]
        used(p) == p[2] # -1
    IN  SelectSeq(all, used)

\* canonical_huffman, lines 633-637: code_lengths.
CodeLengths(byte_codes) ==
    LET all == [i \in 1..256 |-> << i - 1, Len(byte_codes[i - 1]) >>]
        used(p) == p[2] # 0
    IN  SelectSeq(all, used)

\* generate_canonical_codes, lines 426-433: the order of the sort.
PairBefore(a, b) == a[2] < b[2] \/ (a[2] = b[2] /\ a[1] < b[1])

\* The bits of value in n places, most significant first: (value >> i) & 1 for
\* i from n - 1 down to 0.  The values written are below 2^31, so the place
\* i = 31 of a 32-bit field holds 0.
BitsOf(value, n) == [k \in 1..n |-> IF n - k > 30 THEN 0 ELSE (value \div Pow2(n - k)) % 2]

\* generate_canonical_codes, lines 438-449: the loop from the i-th pair on.
\* current_code is a u32; with the code lengths of the inputs modelled it
\* stays below 2^8, far from wrapping.
RECURSIVE canonical_loop(_, _, _, _, _)
canonical_loop(sorted, i, current_code, prev_length, codes) ==
    IF i > Len(sorted) THEN codes
    ELSE LET byte == sorted[i][1]
             length == sorted[i][2]
             shifted == current_code * Pow2(length - prev_length)
             canonical_code == BitsOf(shifted, length)
         IN  canonical_loop(sorted, i + 1, shifted + 1, length,
                            [codes EXCEPT ![byte] = SomeOf(canonical_code)])

generate_canonical_codes(byte_length_pairs) ==
    canonical_loop(SortSeq(byte_length_pairs, PairBefore), 1, 0, 0,
                   [byte \in ByteValues |-> NoneOf])

\* compress_canonical: the bits, or the panic on a byte without a code.
RECURSIVE compress_canonical_loop(_, _, _, _)
compress_canonical_loop(buffer, i, byte_codes, compressed_bits) ==
    IF i > Len(buffer) THEN Ok(compressed_bits)
    ELSE IF byte_codes[buffer[i]] # NoneOf
    THEN compress_canonical_loop(buffer, i + 1, byte_codes,
                                 compressed_bits \o byte_codes[buffer[i]][1])
    ELSE Panic("Byte value has no canonical code")

compress_canonical(buffer, byte_codes) == compress_canonical_loop(buffer, 1, byte_codes, <<>>)

\* write_data_canonical: the bytes flush_to_file writes.
write_data_canonical(byte_lengths, compressed_bits) ==
    LET table_len == Len(byte_lengths)
        data_len == Len(compressed_bits)
        table_bits == Concat([i \in DOMAIN byte_lengths |->
                                 BitsOf(byte_lengths[i][1], 8)
                                     \o BitsOf(byte_lengths[i][2] % 256, 8)])
        writer == write_bits(BitWriter_new,
                             BitsOf(table_len, 32) \o BitsOf(data_len, 32)
                                 \o table_bits \o compressed_bits)
    IN  flush(writer).buffer

\* bits_to_bytes
bits_to_bytes(bits) ==
    LET place(j, k) == IF 8 * (j - 1) + k + 1 <= Len(bits) /\ bits[8 * (j - 1) + k + 1] # 0
                       THEN Pow2(7 - k) ELSE 0
    IN  [j \in 1..((Len(bits) + 7) \div 8) |->
            place(j, 0) + place(j, 1) + place(j, 2) + place(j, 3)
                + place(j, 4) + place(j, 5) + place(j, 6) + place(j, 7)]

\* u32::from_be_bytes and u8::from_be_bytes
RECURSIVE from_be_bytes(_)
from_be_bytes(bytes) ==
    IF bytes = <<>> THEN 0
    ELSE 256 * from_be_bytes(SubSeq(bytes, 1, Len(bytes) - 1)) + bytes[Len(bytes)]

\* n times reader.read_bit().unwrap(): the reader afterwards, the bits, and
\* whether every read_bit returned Some (otherwise unwrap panicked).
RECURSIVE read_bits(_, _, _)
read_bits(reader, n, bits) ==
    IF n = 0 THEN [ok |-> TRUE, reader |-> reader, bits |-> bits]
    ELSE LET r == read_bit(reader)
         IN  IF r.bit.some
             THEN read_bits(r.reader, n - 1, Append(bits, r.bit.v))
             ELSE [ok |-> FALSE, reader |-> reader, bits |-> bits]

\* read_data_canonical, lines 556-570: the table entries still to read.
RECURSIVE read_table(_, _, _)
read_table(reader, n, byte_lengths) ==
    IF n = 0 THEN [ok |-> TRUE, reader |-> reader, byte_lengths |-> byte_lengths]
    ELSE LET byte_bits == read_bits(reader, 8, <<>>)
         IN  IF ~byte_bits.ok
             THEN [ok |-> FALSE, reader |-> reader, byte_lengths |-> byte_lengths]
             ELSE LET len_bits == read_bits(byte_bits.reader, 8, <<>>)
                  IN  IF ~len_bits.ok
                      THEN [ok |-> FALSE, reader |-> reader, byte_lengths |-> byte_lengths]
                      ELSE read_table(len_bits.reader, n - 1,
                                      Append(byte_lengths,
                                             << from_be_bytes(bits_to_bytes(byte_bits.bits)),
                                                from_be_bytes(bits_to_bytes(len_bits.bits)) >>))

\* struct DecodeNode
DecodeNode_new == [left |-> NoneOf, right |-> NoneOf, byte |-> NoneOf]

\* DecodeNode::insert going right on a 0 bit and left on a 1 bit.
RECURSIVE DecodeNode_insert_Swapped(_, _, _, _)
DecodeNode_insert_Swapped(node, code, i, byte) ==
    IF i > Len(code) THEN [node EXCEPT !.byte = SomeOf(byte)]
    ELSE IF code[i] # 0
    THEN LET child == IF node.left = NoneOf THEN DecodeNode_new ELSE node.left[1]
         IN  [node EXCEPT !.left = SomeOf(DecodeNode_insert_Swapped(child, code, i + 1, byte))]
    ELSE LET child == IF node.right = NoneOf THEN DecodeNode_new ELSE node.right[1]
         IN  [node EXCEPT !.right = SomeOf(DecodeNode_insert_Swapped(child, code, i + 1, byte))]

\* DecodeNode::insert, from the i-th bit of code on.
RECURSIVE DecodeNode_insert(_, _, _, _)
DecodeNode_insert(node, code, i, byte) ==
    IF i > Len(code) THEN [node EXCEPT !.byte = SomeOf(byte)]
    ELSE IF code[i] = 0
    THEN LET child == IF node.left = NoneOf THEN DecodeNode_new ELSE node.left[1]
         IN  [node EXCEPT !.left = SomeOf(DecodeNode_insert(child, code, i + 1, byte))]
    ELSE LET child == IF node.right = NoneOf THEN DecodeNode_new ELSE node.right[1]
         IN  [node EXCEPT !.right = SomeOf(DecodeNode_insert(child, code, i + 1, byte))]

\* build_decoding_tree: the inserts for the byte values lo..hi, in order.
RECURSIVE build_range(_, _, _, _)
build_range(root, codes, lo, hi) ==
    IF lo > hi THEN root
    ELSE IF lo = hi
    THEN IF codes[lo] # NoneOf THEN DecodeNode_insert(root, codes[lo][1], 1, lo) ELSE root
    ELSE LET mid == (lo + hi) \div 2
         IN  CHOOSE r \in { build_range(half, codes, mid + 1, hi) :
                            half \in { build_range(root, codes, lo, mid) } } : TRUE

build_decoding_tree(codes) == build_range(DecodeNode_new, codes, 0, 255)

\* decode_canonical, from the i-th bit on: the bytes, or the panic of unwrap
\* on a child that is None.
RECURSIVE decode_canonical_loop(_, _, _, _, _)
decode_canonical_loop(bits, i, root, node, result) ==
    IF i > Len(bits) THEN Ok(result)
    ELSE LET child == IF bits[i] = 0 THEN node.left ELSE node.right
         IN  IF child = NoneOf THEN Panic("unwrap on None: decode_canonical")
             ELSE IF child[1].byte # NoneOf
             THEN decode_canonical_loop(bits, i + 1, root, root,
                                        Append(result, child[1].byte[1]))
             ELSE decode_canonical_loop(bits, i + 1, root, child[1], result)

decode_canonical(bits, root) == decode_canonical_loop(bits, 1, root, root, <<>>)

\* read_data_canonical, on the bytes of the file: Ok(bytes) or the panic.
read_data_canonical(file) ==
    LET table_len_bits == read_bits(load_from_file(file), 32, <<>>)
    IN  IF ~table_len_bits.ok THEN Panic("unwrap on None: table length")
        ELSE
    LET table_len == from_be_bytes(bits_to_bytes(table_len_bits.bits))
        data_len_bits == read_bits(table_len_bits.reader, 32, <<>>)
    IN  IF ~data_len_bits.ok THEN Panic("unwrap on None: data length")
        ELSE
    LET data_len == from_be_bytes(bits_to_bytes(data_len_bits.bits))
        table == read_table(data_len_bits.reader, table_len, <<>>)
    IN  IF ~table.ok THEN Panic("unwrap on None: table")
        ELSE
    LET codes == generate_canonical_codes(table.byte_lengths)
        compressed_bits == read_bits(table.reader, data_len, <<>>)
    IN  IF ~compressed_bits.ok THEN Panic("unwrap on None: data")
        ELSE decode_canonical(compressed_bits.bits, build_decoding_tree(codes))

\* module_startup calls canonical_huffman; the file to compress holds h_buffer.
HuffStart ==
    /\ h_pc = "start"
    /\ h_args_len \in { 2, 3 }
    /\ h_buffer \in HuffInputs
    /\ h_heap = <<>>
    /\ h_code_lengths = <<>>
    /\ h_compressed_bits = <<>>
    /\ h_file = <<>>
    /\ h_cut = FALSE
    /\ h_back_buffer = <<>>
    /\ h_result_file = <<>>
    /\ h_result = "none"

\* canonical_huffman, lines 601-621, and generate_huffman_tree, lines 329-340:
\* the argument count, the read, the frequencies and the leaves.
H_Read ==
    /\ h_pc = "start"
    /\ IF h_args_len # 3
       THEN /\ h_result' = "returned"
            /\ h_pc' = "done"
            /\ UNCHANGED h_heap
       ELSE /\ h_heap' = InitialHeap(calculate_byte_frequencies(h_buffer))
            /\ h_pc' = "tree"
            /\ UNCHANGED h_result
    /\ UNCHANGED << h_args_len, h_buffer, h_code_lengths, h_compressed_bits, h_file, h_cut,
                    h_back_buffer, h_result_file >>
    /\ UNCHANGED notHuff

\* generate_huffman_tree, lines 342-352: one round of the loop.
H_Merge ==
    /\ h_pc = "tree"
    /\ Len(h_heap) > 1
    /\ \E i \in PopChoices(h_heap) :
          LET node1 == h_heap[i]
              rest == RemoveAt(h_heap, i)
          IN  \E j \in PopChoices(rest) :
                 LET node2 == rest[j]
                 IN  h_heap' = Append(RemoveAt(rest, j),
                                      Node(SomeOf(node1), SomeOf(node2),
                                           node1.num + node2.num, NoneOf))
    /\ UNCHANGED << h_pc, h_args_len, h_buffer, h_code_lengths, h_compressed_bits, h_file,
                    h_cut, h_back_buffer, h_result_file, h_result >>
    /\ UNCHANGED notHuff

\* generate_huffman_tree, line 354, and canonical_huffman, lines 629-648: the
\* root, the codes, the lengths, the canonical codes, the bits and the file.
H_Encode ==
    /\ h_pc = "tree"
    /\ Len(h_heap) <= 1
    /\ IF h_heap = <<>>
       THEN /\ h_result' = "panic: unwrap on None: generate_huffman_tree"
            /\ h_pc' = "done"
            /\ UNCHANGED << h_code_lengths, h_compressed_bits, h_file >>
       ELSE LET byte_codes == generate_byte_codes(h_heap[1])
                code_lengths == CodeLengths(byte_codes)
                codes == generate_canonical_codes(code_lengths)
                compressed_bits == compress_canonical(h_buffer, codes)
            IN  /\ h_code_lengths' = code_lengths
                /\ IF compressed_bits.kind = "panic"
                   THEN /\ h_result' = "panic: Byte value has no canonical code"
                        /\ h_pc' = "done"
                        /\ UNCHANGED << h_compressed_bits, h_file >>
                   ELSE /\ h_compressed_bits' = compressed_bits.v
                        /\ h_file' = write_data_canonical(code_lengths, compressed_bits.v)
                        /\ h_pc' = "written"
                        /\ UNCHANGED h_result
    /\ UNCHANGED << h_args_len, h_buffer, h_heap, h_cut, h_back_buffer, h_result_file >>
    /\ UNCHANGED notHuff

\* The compressed file loses its end before it is read.
H_Cut ==
    /\ h_pc = "written"
    /\ ~h_cut
    /\ \E k \in 0..(Len(h_file) - 1) : h_file' = SubSeq(h_file, 1, k)
    /\ h_cut' = TRUE
    /\ UNCHANGED << h_pc, h_args_len, h_buffer, h_heap, h_code_lengths, h_compressed_bits,
                    h_back_buffer, h_result_file, h_result >>
    /\ UNCHANGED notHuff

\* canonical_huffman, lines 652-663: read_data_canonical on the file.
H_ReadBack ==
    /\ h_pc = "written"
    /\ LET r == read_data_canonical(h_file)
       IN  IF r.kind = "Ok"
           THEN /\ h_back_buffer' = r.v
                /\ h_pc' = "read"
                /\ UNCHANGED h_result
           ELSE /\ h_result' = "panic: " \o r.msg
                /\ h_pc' = "done"
                /\ UNCHANGED h_back_buffer
    /\ UNCHANGED << h_args_len, h_buffer, h_heap, h_code_lengths, h_compressed_bits, h_file,
                    h_cut, h_result_file >>
    /\ UNCHANGED notHuff

\* canonical_huffman, lines 665-696: the result file.
H_WriteResult ==
    /\ h_pc = "read"
    /\ h_result_file' = h_back_buffer
    /\ h_result' = "Ok"
    /\ h_pc' = "done"
    /\ UNCHANGED << h_args_len, h_buffer, h_heap, h_code_lengths, h_compressed_bits, h_file,
                    h_cut, h_back_buffer >>
    /\ UNCHANGED notHuff

HuffInit == HostIdle /\ DeltaIdle /\ RleIdle /\ HuffStart /\ BitIdle /\ StatsIdle /\ AutoIdle

HuffNext ==
    \/ H_Read
    \/ H_Merge
    \/ H_Encode
    \/ H_Cut
    \/ H_ReadBack
    \/ H_WriteResult

HuffSpec == HuffInit /\ [][HuffNext]_vars
----------------------------------------------------------------------------
\* shared_files: CompressionStatsBuilder

MaxSectionCalls == 2

\* The mandatory fields, in the order build tests them.
MandatoryFields == << "algorithm_name", "algorithm_id", "version_used", "original_len",
                      "processed_len", "duration", "is_compression" >>

\* The values the setters are called with.
AlgorithmNames == { "Run Length Encoding" }
AlgorithmIds == { 3 }
VersionNumbers == { 1, 2 }
Lengths == { 0, 10 }
Durations == { 0, 5 }
SectionNames == { "read", "write" }

\* SectionStats::new.
SectionStats_new(name, duration) == [name |-> name, duration |-> duration]

SectionLists == { <<>>, << SectionStats_new("write", 5), SectionStats_new("read", 0) >> }

\* CompressionStatsBuilder::new: Self::default().
CompressionStatsBuilder_new ==
    [algorithm_name |-> None, algorithm_id |-> None, version_used |-> None,
     original_len |-> None, processed_len |-> None, duration |-> None,
     is_compression |-> None, sections |-> <<>>]

\* CompressionStats::calculate_stats.  The three f64 fields are kept as
\* fractions << numerator, denominator >>; the speed is in bytes per 2^20
\* units of the duration, "inf" for a duration of 0.
calculate_stats(algorithm_name, algorithm_id, version_used, original_len, processed_len, duration, is_compression, sections) ==
    LET uncompressed_len == IF is_compression THEN original_len ELSE processed_len
        compressed_len == IF is_compression THEN processed_len ELSE original_len
        raw_byte_difference == uncompressed_len - compressed_len
        difference_bytes == IF raw_byte_difference < 0 THEN 0 - raw_byte_difference
                            ELSE raw_byte_difference
    IN  [algorithm_name |-> algorithm_name,
         algorithm_id |-> algorithm_id,
         version_used |-> version_used,
         original_len |-> original_len,
         processed_len |-> processed_len,
         duration |-> duration,
         is_compression |-> is_compression,
         sections |-> sections,
         compression_ratio_factor |-> IF compressed_len = 0 THEN << 0, 1 >>
                                      ELSE << uncompressed_len, compressed_len >>,
         speed_mib_s |-> IF duration = 0 THEN << "inf" >>
                         ELSE << uncompressed_len, 1048576 * duration >>,
         raw_byte_difference |-> raw_byte_difference,
         percentage_change |-> IF uncompressed_len = 0 THEN << 0, 1 >>
                               ELSE << difference_bytes * 100, uncompressed_len >>]

\* build without the test of the duration: a missing duration counts as 0.
build_DurationDefaults(b) ==
    IF ~b.algorithm_name.some THEN [kind |-> "MissingField", v |-> "algorithm_name"]
    ELSE IF ~b.algorithm_id.some THEN [kind |-> "MissingField", v |-> "algorithm_id"]
    ELSE IF ~b.version_used.some THEN [kind |-> "MissingField", v |-> "version_used"]
    ELSE IF ~b.original_len.some THEN [kind |-> "MissingField", v |-> "original_len"]
    ELSE IF ~b.processed_len.some THEN [kind |-> "MissingField", v |-> "processed_len"]
    ELSE IF ~b.is_compression.some THEN [kind |-> "MissingField", v |-> "is_compression"]
    ELSE [kind |-> "Ok",
          v |-> calculate_stats(b.algorithm_name.v, b.algorithm_id.v, b.version_used.v,
                                b.original_len.v, b.processed_len.v,
                                IF b.duration.some THEN b.duration.v ELSE 0,
                                b.is_compression.v, b.sections)]

\* CompressionStatsBuilder::build.
build(b) ==
    IF ~b.algorithm_name.some THEN [kind |-> "MissingField", v |-> "algorithm_name"]
    ELSE IF ~b.algorithm_id.some THEN [kind |-> "MissingField", v |-> "algorithm_id"]
    ELSE IF ~b.version_used.some THEN [kind |-> "MissingField", v |-> "version_used"]
    ELSE IF ~b.original_len.some THEN [kind |-> "MissingField", v |-> "original_len"]
    ELSE IF ~b.processed_len.some THEN [kind |-> "MissingField", v |-> "processed_len"]
    ELSE IF ~b.duration.some THEN [kind |-> "MissingField", v |-> "duration"]
    ELSE IF ~b.is_compression.some THEN [kind |-> "MissingField", v |-> "is_compression"]
    ELSE [kind |-> "Ok",
          v |-> calculate_stats(b.algorithm_name.v, b.algorithm_id.v, b.version_used.v,
                                b.original_len.v, b.processed_len.v, b.duration.v,
                                b.is_compression.v, b.sections)]

StatsStart ==
    /\ s_pc = "building"
    /\ s_builder = CompressionStatsBuilder_new
    /\ s_called = [n \in { MandatoryFields[i] : i \in DOMAIN MandatoryFields } |-> None]
    /\ s_section_calls = <<>>
    /\ s_result = [kind |-> "none", v |-> <<>>]

\* CompressionStatsBuilder::algorithm_name.
S_AlgorithmName ==
    /\ s_pc = "building"
    /\ \E name \in AlgorithmNames :
          /\ s_builder' = [s_builder EXCEPT !.algorithm_name = Some(name)]
          /\ s_called' = [s_called EXCEPT !["algorithm_name"] = Some(name)]
    /\ UNCHANGED << s_pc, s_section_calls, s_result >>
    /\ UNCHANGED notStats

\* CompressionStatsBuilder::algorithm_id.
S_AlgorithmId ==
    /\ s_pc = "building"
    /\ \E id \in AlgorithmIds :
          /\ s_builder' = [s_builder EXCEPT !.algorithm_id = Some(id)]
          /\ s_called' = [s_called EXCEPT !["algorithm_id"] = Some(id)]
    /\ UNCHANGED << s_pc, s_section_calls, s_result >>
    /\ UNCHANGED notStats

\* CompressionStatsBuilder::version_used.
S_VersionUsed ==
    /\ s_pc = "building"
    /\ \E version \in VersionNumbers :
          /\ s_builder' = [s_builder EXCEPT !.version_used = Some(version)]
          /\ s_called' = [s_called EXCEPT !["version_used"] = Some(version)]
    /\ UNCHANGED << s_pc, s_section_calls, s_result >>
    /\ UNCHANGED notStats

\* CompressionStatsBuilder::original_len.
S_OriginalLen ==
    /\ s_pc = "building"
    /\ \E len \in Lengths :
          /\ s_builder' = [s_builder EXCEPT !.original_len = Some(len)]
          /\ s_called' = [s_called EXCEPT !["original_len"] = Some(len)]
    /\ UNCHANGED << s_pc, s_section_calls, s_result >>
    /\ UNCHANGED notStats

\* CompressionStatsBuilder::processed_len.
S_ProcessedLen ==
    /\ s_pc = "building"
    /\ \E len \in Lengths :
          /\ s_builder' = [s_builder EXCEPT !.processed_len = Some(len)]
          /\ s_called' = [s_called EXCEPT !["processed_len"] = Some(len)]
    /\ UNCHANGED << s_pc, s_section_calls, s_result >>
    /\ UNCHANGED notStats

\* CompressionStatsBuilder::duration.
S_Duration ==
    /\ s_pc = "building"
    /\ \E duration \in Durations :
          /\ s_builder' = [s_builder EXCEPT !.duration = Some(duration)]
          /\ s_called' = [s_called EXCEPT !["duration"] = Some(duration)]
    /\ UNCHANGED << s_pc, s_section_calls, s_result >>
    /\ UNCHANGED notStats

\* CompressionStatsBuilder::is_compression.
S_IsCompression ==
    /\ s_pc = "building"
    /\ \E is_comp \in BOOLEAN :
          /\ s_builder' = [s_builder EXCEPT !.is_compression = Some(is_comp)]
          /\ s_called' = [s_called EXCEPT !["is_compression"] = Some(is_comp)]
    /\ UNCHANGED << s_pc, s_section_calls, s_result >>
    /\ UNCHANGED notStats

\* CompressionStatsBuilder::sections.
S_Sections ==
    /\ s_pc = "building"
    /\ Len(s_section_calls) < MaxSectionCalls
    /\ \E sections \in SectionLists :
          /\ s_builder' = [s_builder EXCEPT !.sections = sections]
          /\ s_section_calls' = Append(s_section_calls, [op |-> "sections", v |-> sections])
    /\ UNCHANGED << s_pc, s_called, s_result >>
    /\ UNCHANGED notStats

\* CompressionStatsBuilder::add_section.
S_AddSection ==
    /\ s_pc = "building"
    /\ Len(s_section_calls) < MaxSectionCalls
    /\ \E name \in SectionNames, duration \in Durations :
          /\ s_builder' = [s_builder EXCEPT
                              !.sections = Append(@, SectionStats_new(name, duration))]
          /\ s_section_calls' = Append(s_section_calls,
                                       [op |-> "add_section",
                                        v |-> [name |-> name, duration |-> duration]])
    /\ UNCHANGED << s_pc, s_called, s_result >>
    /\ UNCHANGED notStats

\* The call of build, which consumes the builder.
S_Build ==
    /\ s_pc = "building"
    /\ s_result' = build(s_builder)
    /\ s_pc' = "built"
    /\ UNCHANGED << s_builder, s_called, s_section_calls >>
    /\ UNCHANGED notStats

StatsInit ==
    HostIdle /\ DeltaIdle /\ RleIdle /\ HuffIdle /\ BitIdle /\ StatsStart /\ AutoIdle

StatsNext ==
    \/ S_AlgorithmName
    \/ S_AlgorithmId
    \/ S_VersionUsed
    \/ S_OriginalLen
    \/ S_ProcessedLen
    \/ S_Duration
    \/ S_IsCompression
    \/ S_Sections
    \/ S_AddSection
    \/ S_Build

StatsSpec == StatsInit /\ [][StatsNext]_vars

----------------------------------------------------------------------------
\* rls module: auto_choice_from_chunks, called with lists of samples

MaxSamples == 3

\* Samples: empty, shorter in v2, as long in both, shorter in v1 (twice).
SampleChunks == { <<>>, << 7 >>, << 7, 7 >>, << 7, 7, 7, 7 >>, << 0 >> }

AutoStart ==
    /\ a_pc = "call"
    /\ a_chunks \in UNION { [1..n -> SampleChunks] : n \in 0..MaxSamples }
    /\ a_choice = "none"

A_Call ==
    /\ a_pc = "call"
    /\ a_choice' = auto_choice_from_chunks(a_chunks)
    /\ a_pc' = "returned"
    /\ UNCHANGED a_chunks
    /\ UNCHANGED notAuto

AutoInit ==
    HostIdle /\ DeltaIdle /\ RleIdle /\ HuffIdle /\ BitIdle /\ StatsIdle /\ AutoStart

AutoNext == A_Call

AutoSpec == AutoInit /\ [][AutoNext]_vars
----------------------------------------------------------------------------
\* Observers of the history

EvAt(op, h) == { i \in DOMAIN events : events[i].op = op /\ events[i].h = h }

Attempts(f, pass) ==
    { i \in DOMAIN events : /\ events[i].file = f
                            /\ events[i].pass = pass
                            /\ events[i].op \in { "open", "open_failed" } }

\* The stage of the all-modules pass a call belongs to.
Phase(op) ==
    CASE op \in { "shutdown", "no_shutdown" } -> 2
      [] op \in { "close", "close_failed" } -> 3
      [] OTHER -> 1

\* The place of a call in the life of one module.
Step(op) ==
    CASE op \in { "open", "open_failed" } -> 1
      [] op \in { "startup", "no_startup" } -> 2
      [] op \in { "shutdown", "no_shutdown" } -> 3
      [] OTHER -> 4

\* A token that starts with '+', and the split of a command line by such tokens.
StartsGroup(tok) == Len(tok) > 0 /\ tok[1] = "+"

GroupStarts(a) == { p \in DOMAIN a : StartsGroup(a[p]) }

ExpectedGlobal(a) ==
    SubSeq(a, 1, (CHOOSE n \in 0..Len(a) :
                     /\ \A p \in 1..n : ~StartsGroup(a[p])
                     /\ n < Len(a) => StartsGroup(a[n + 1])))

ExpectedGroup(a, p) ==
    [k |-> Tail(a[p]),
     v |-> SubSeq(a, p + 1, (CHOOSE n \in p..Len(a) :
                               /\ \A q \in (p + 1)..n : ~StartsGroup(a[q])
                               /\ n < Len(a) => StartsGroup(a[n + 1])))]

RECURSIVE DistinctInOrder(_, _)
DistinctInOrder(names, seen) ==
    IF names = <<>> THEN <<>>
    ELSE IF Head(names) \in seen THEN DistinctInOrder(Tail(names), seen)
    ELSE <<Head(names)>> \o DistinctInOrder(Tail(names), seen \cup { Head(names) })

RECURSIVE GroupNames(_)
GroupNames(a) ==
    IF a = <<>> THEN <<>>
    ELSE IF StartsGroup(Head(a)) THEN <<Tail(Head(a))>> \o GroupNames(Tail(a))
    ELSE GroupNames(Tail(a))

IsPrefix(x, y) == Len(x) <= Len(y) /\ SubSeq(y, 1, Len(x)) = x

\* The global group as routed, without the program name main puts in front.
GlobalGroup ==
    IF Len(global_args.v) > 0 /\ global_args.v[1] = first_arg
    THEN Tail(global_args.v) ELSE global_args.v

ParsePanicked == contains(printed, "panic: main.rs:735 unwrap on None")

AllPassLoaded ==
    /\ global_args.some
    /\ pc \in { "unload_all", "groups", "group_start", "group_unload", "done" }

----------------------------------------------------------------------------
\* Claims

\* C1: in either pass module_startup and module_shutdown are each invoked at
\* most once per loaded module, and module_shutdown only after that module's
\* module_startup was invoked and returned.
C1_ShutdownOnlyAfterStartup ==
    \A h \in DOMAIN handles :
        /\ Cardinality(EvAt("startup", h)) <= 1
        /\ Cardinality(EvAt("shutdown", h)) <= 1
        /\ \A j \in EvAt("shutdown", h) : \E i \in EvAt("startup", h) : i < j

\* C2: within one host run no module library is opened a second time.
C2_NoReload ==
    \A i, j \in DOMAIN events :
        (i < j /\ events[i].op = "open" /\ events[j].op = "open")
            => events[i].file # events[j].file

\* C3 as stated: in both passes the host is through with one module (startup,
\* shutdown, unload) before it loads or starts the next.
C3_OneAtATimeInBothPasses ==
    \A i, j \in DOMAIN events :
        (i < j /\ events[i].h # 0 /\ events[j].h # 0) => events[i].h <= events[j].h

\* C3 as amended: the per-group pass handles modules one at a time, each in the
\* order load, startup, shutdown, unload; the all-modules pass loads and starts
\* every module, then shuts every loaded module down, then closes every
\* library; the all-modules pass is over before the per-group pass begins.
C3_OneAtATimePerGroup ==
    \A i, j \in DOMAIN events :
        i < j =>
            /\ (events[i].pass = "group" /\ events[j].pass = "group"
                    /\ events[i].h # 0 /\ events[j].h # 0)
                  => events[i].h <= events[j].h
            /\ (events[i].pass = "all" /\ events[j].pass = "all")
                  => Phase(events[i].op) <= Phase(events[j].op)
            /\ events[i].pass = "group" => events[j].pass = "group"
            /\ (events[i].h # 0 /\ events[i].h = events[j].h)
                  => Step(events[i].op) < Step(events[j].op)

\* Both passes ran to their end with two modules each.
C3_Witness ==
    /\ pc = "done"
    /\ Cardinality({ h \in DOMAIN handles :
                        handles[h].pass = "all" /\ handles[h].st = "closed" }) >= 2
    /\ Cardinality({ h \in DOMAIN handles :
                        handles[h].pass = "group" /\ handles[h].st = "closed" }) >= 2

LoadFailureSeen ==
    \/ \E i \in DOMAIN events : events[i].op \in { "open_failed", "no_startup" }
    \/ contains(printed, "LoadError: Module not found!")

\* A module whose own library opens, exports both entry points and closes
\* went through load, startup, shutdown and unload.
HandleServed(h) ==
    (dir[handles[h].file].startup /\ dir[handles[h].file].shutdown)
        => /\ EvAt("startup", h) # {}
           /\ EvAt("shutdown", h) # {}
           /\ handles[h].st \in { "closed", "close_failed" }

\* C4: once one module has failed to load, the host still reaches the end of
\* its loop, and every other module found or named was loaded, started, shut
\* down and unloaded.
C4_LoadFailureIsolated ==
    LoadFailureSeen =>
        /\ pc # "panic"
        /\ pc = "done" =>
              /\ \A h \in DOMAIN handles : HandleServed(h)
              /\ global_args.some =>
                    \A f \in DOMAIN dir : IsLibrary(dir[f], os) => Attempts(f, "all") # {}
              /\ \A g \in DOMAIN seperated_args :
                    LET r == FindModule(dir, os, seperated_args[g].k, 1)
                    IN  (seperated_args[g].k # <<"core">> /\ r.found # 0)
                            => Attempts(r.found, "group") # {}

FailedToUnload(h) ==
    ~dir[handles[h].file].shutdown \/ handles[h].st = "close_failed"

\* C5: unload_modules returns the UnloadError exactly when at least one module
\* was loaded and every loaded module failed to unload.
C5_UnloadErrorIffAllFailed ==
    unload_result # "none" =>
        (unload_result = "Err"
            <=> /\ libraries # <<>>
                /\ \A k \in DOMAIN libraries : FailedToUnload(libraries[k]))

\* C6: for every argument list the routing ends with the global group being
\* the tokens before the first token that starts with '+', and the module
\* groups being the tokens from a '+name' token up to the next token that
\* starts with '+'.
C6_ArgumentSplit ==
    pc # "start" =>
        /\ ~ParsePanicked
        /\ GlobalGroup = ExpectedGlobal(argv)
        /\ \A g \in DOMAIN seperated_args :
              \E p \in GroupStarts(argv) : seperated_args[g] = ExpectedGroup(argv, p)
        /\ \A p \in GroupStarts(argv) : contains_key(seperated_args, Tail(argv[p]))

\* C7: the per-group pass takes the group names up in the order of their first
\* occurrence, each once, with one load and at most one startup per name; the
\* all-modules pass tries the libraries in directory-listing order, each once.
C7_ProcessingOrder ==
    /\ IsPrefix(group_log, DistinctInOrder(GroupNames(argv), {}))
    /\ pc = "done" => group_log = DistinctInOrder(GroupNames(argv), {})
    /\ \A h \in DOMAIN handles : Cardinality(EvAt("startup", h)) <= 1
    /\ \A f \in DOMAIN dir : Cardinality(Attempts(f, "group")) <= 1
    /\ \A f \in DOMAIN dir : Cardinality(Attempts(f, "all")) <= 1
    /\ \A i, j \in DOMAIN events :
          (i < j /\ events[i].pass = "all" /\ events[j].pass = "all"
                 /\ events[i].op \in { "open", "open_failed" }
                 /\ events[j].op \in { "open", "open_failed" })
              => events[i].file < events[j].file
    /\ AllPassLoaded =>
          \A f \in DOMAIN dir : IsLibrary(dir[f], os) => Attempts(f, "all") # {}
    /\ pc = "done" =>
          \A g \in DOMAIN seperated_args :
              LET r == FindModule(dir, os, seperated_args[g].k, 1)
              IN  (seperated_args[g].k # <<"core">> /\ r.found # 0)
                      => /\ Cardinality(Attempts(r.found, "group")) = 1
                         /\ \A h \in DOMAIN handles :
                               (handles[h].pass = "group" /\ handles[h].file = r.found
                                    /\ dir[r.found].startup)
                                   => Cardinality(EvAt("startup", h)) = 1

\* A command line that names one module, another, and the first again: both
\* were started, in the order of first occurrence.
C7_Witness ==
    /\ pc = "done"
    /\ Len(argv) = 3
    /\ argv[1] = argv[3]
    /\ argv[1] # argv[2]
    /\ Len(group_log) = 2
    /\ Cardinality({ h \in DOMAIN handles :
                        handles[h].pass = "group" /\ EvAt("startup", h) # {} }) = 2

\* C8: no handle opened in the all-modules pass is still open once that pass is
\* left, and none at all when main returns.
C8_HandlesReleased ==
    /\ pc \in { "done", "returned" } =>
          \A h \in DOMAIN handles : handles[h].st # "open"
    /\ pc \in { "groups", "group_start", "group_unload", "done" } =>
          \A h \in DOMAIN handles : handles[h].pass = "all" => handles[h].st # "open"

\* C9: the host never panics.
C9_NoPanic == pc # "panic"

\* C10: the inverse transform of the forward transform's output is, byte for
\* byte, the plaintext, the empty one included, however the reader chunks.
C10_DeltaRoundTrip ==
    (d_stage = 2 /\ d_pc = "done" /\ has_correct_extension(d_in_ext))
        => /\ d_result = "Ok"
           /\ d_output = d_orig

\* A plaintext of full length with a falling byte (a delta that wraps) came back.
C10_Witness ==
    /\ d_stage = 2
    /\ d_pc = "done"
    /\ d_result = "Ok"
    /\ Len(d_orig) = MaxDeltaLen
    /\ d_orig[1] > d_orig[2]
    /\ d_orig[2] < d_orig[3]
    /\ d_output = d_orig

IsPrefixOf(a, b) == Len(a) <= Len(b) /\ SubSeq(b, 1, Len(a)) = a

\* C20: Bit I/O round-trip.  A BitWriter that is handed the bits B (N of them)
\* and then flushed holds ceil(N/8) bytes; a BitReader on these bytes returns
\* B as its first N bits, most significant bit of each byte first, and then at
\* most 7 further bits before it returns None.
C20_BitRoundTrip ==
    /\ b_pc \in { "read", "done" } =>
          /\ Len(b_writer.buffer) = (Len(b_bits) + 7) \div 8
          /\ IsPrefixOf(b_read, b_bits) \/ IsPrefixOf(b_bits, b_read)
          /\ \A i \in DOMAIN b_bits :
                b_bits[i] = (b_writer.buffer[((i - 1) \div 8) + 1] \div Pow2(7 - ((i - 1) % 8))) % 2
    /\ b_pc = "done" =>
          /\ b_none
          /\ IsPrefixOf(b_bits, b_read)
          /\ Len(b_read) - Len(b_bits) <= 7

\* C20 happens: more than one byte of bits, not a whole number of bytes, with
\* a one in the last place, was written, flushed and read to the end.
C20_Witness ==
    /\ b_pc = "done"
    /\ Len(b_bits) > 8
    /\ Len(b_bits) % 8 # 0
    /\ b_bits[Len(b_bits)] = 1
    /\ b_bits[1] = 0
    /\ Len(b_read) > Len(b_bits)

\* The variant decompress_from_file applies for a version.
DecompressVariant(version) == IF version = "Two" THEN "Two" ELSE "One"

\* C11: RLE round-trip.  For every byte sequence X, the empty one, runs longer
\* than 255 and bytes equal to 0x00 included, decompress_v1(compress_v1(X)) and
\* decompress_v2(compress_v2(X)) are Ok(X): what compress wrote decompresses,
\* with the same variant, to the bytes compress was given.
C11_RleRoundTrip ==
    /\ (r_command = "Compress" /\ r_pc \in { "write", "done" }) =>
          decompress_with(r_chosen, r_data) = Ok(r_input)
    /\ (r_stage = 2 /\ r_pc = "done" /\ r_in_suffix = ".purgepack"
           /\ DecompressVariant(r_version) = r_chosen) =>
          /\ r_result = "Ok"
          /\ r_output = r_orig

\* C11 happens: a file with a run longer than 255 and with bytes 0x00 was
\* compressed with v2 and the file written was decompressed with v2.
C11_Witness ==
    /\ r_stage = 2
    /\ r_pc = "done"
    /\ r_chosen = "Two"
    /\ r_version = "Two"
    /\ r_result = "Ok"
    /\ Len(r_orig) > MAX_RUN_LENGTH + 1
    /\ r_orig[1] = ESCAPE_BYTE
    /\ r_orig[Len(r_orig)] # ESCAPE_BYTE
    /\ Len(r_input) < Len(r_orig)

\* Whether the scan of decompress_v2 comes, from index i on, to an ESC byte
\* with fewer than two bytes after it.
RECURSIVE TruncatedEscape(_, _)
TruncatedEscape(compressed_data, i) ==
    IF i > Len(compressed_data) THEN FALSE
    ELSE IF compressed_data[i] = ESCAPE_BYTE
    THEN i + 2 > Len(compressed_data) \/ TruncatedEscape(compressed_data, i + 3)
    ELSE TruncatedEscape(compressed_data, i + 1)

\* C17: RLE v2 decompress.  An ESC byte the scan comes to with fewer than two
\* bytes after it makes decompress_v2 return an error; no input makes it read
\* past the end of the input or panic.
C17_EscapeNeedsTwoBytes ==
    (r_command = "Decompress" /\ r_version = "Two" /\ r_in_suffix = ".purgepack"
        /\ r_pc # "begin") =>
       /\ r_result # "panic"
       /\ TruncatedEscape(r_input, 1) => r_result = "Decompression error"

\* The byte values that occur in a buffer.
DistinctBytes(buffer) == { buffer[i] : i \in DOMAIN buffer }

\* C12: Huffman round-trip.  For every input with at least two distinct byte
\* values, the canonical stream written for it is read back to the input, byte
\* for byte, whichever of several nodes of equal weight the heap handed out.
C12_HuffmanRoundTrip ==
    (h_args_len = 3 /\ ~h_cut /\ Cardinality(DistinctBytes(h_buffer)) >= 2) =>
       /\ h_pc = "read" => h_back_buffer = h_buffer
       /\ h_pc = "done" => (h_result = "Ok" /\ h_result_file = h_buffer)

\* C12 happens: an input with three byte values was written and read back,
\* and the tie between equal weights went to giving the largest byte value
\* the short code.
C12_Witness ==
    /\ h_pc = "done"
    /\ ~h_cut
    /\ h_result = "Ok"
    /\ Cardinality(DistinctBytes(h_buffer)) = 3
    /\ Len(h_code_lengths) = 3
    /\ h_code_lengths[3][2] = 1
    /\ h_code_lengths[1][2] = 2

\* C13: Huffman single-symbol input.  For every non-empty input made of one
\* byte value the encoder produces a stream, without failing or panicking, and
\* the decoder recovers the input from it.
C13_SingleSymbolHandled ==
    (h_args_len = 3 /\ ~h_cut /\ h_pc = "done"
        /\ Cardinality(DistinctBytes(h_buffer)) = 1) =>
       /\ h_result = "Ok"
       /\ h_result_file = h_buffer

\* The results of canonical_huffman that are panics.
HuffPanics ==
    { "panic: unwrap on None: generate_huffman_tree",
      "panic: Byte value has no canonical code",
      "panic: unwrap on None: table length",
      "panic: unwrap on None: data length",
      "panic: unwrap on None: table",
      "panic: unwrap on None: data",
      "panic: unwrap on None: decode_canonical" }

\* C18: Huffman decode of a truncated stream.  A stream with fewer bits than
\* its length fields, its table or its data bits need makes
\* read_data_canonical return an error value: it does not panic and it does
\* not return a short result.
C18_TruncatedIsError ==
    h_cut =>
       /\ h_result \notin HuffPanics
       /\ h_pc # "read"
       /\ h_result # "Ok"

\* 2^MaxLength times the Kraft sum of a table of (byte, length) pairs.
RECURSIVE KraftScaled(_, _, _)
KraftScaled(byte_lengths, i, max_length) ==
    IF i > Len(byte_lengths) THEN 0
    ELSE Pow2(max_length - byte_lengths[i][2]) + KraftScaled(byte_lengths, i + 1, max_length)

IsProperPrefix(a, b) == Len(a) < Len(b) /\ SubSeq(b, 1, Len(a)) = a

\* C19: Kraft.  For every input with at least two distinct byte values the
\* (byte, length) pairs serialised have every length >= 1, hold one pair for
\* each byte value of the input and no other, and have a Kraft sum of at most
\* 1; the canonical codes assigned from them are distinct and prefix-free.
C19_Kraft ==
    (h_args_len = 3 /\ h_pc \in { "written", "read", "done" }
        /\ Cardinality(DistinctBytes(h_buffer)) >= 2) =>
       LET codes == generate_canonical_codes(h_code_lengths)
           bytes == { h_code_lengths[i][1] : i \in DOMAIN h_code_lengths }
       IN  /\ \A i \in DOMAIN h_code_lengths :
                h_code_lengths[i][2] >= 1 /\ h_code_lengths[i][2] <= MaxHuffLen + 1
           /\ bytes = DistinctBytes(h_buffer)
           /\ Len(h_code_lengths) = Cardinality(bytes)
           /\ KraftScaled(h_code_lengths, 1, MaxHuffLen + 1) <= Pow2(MaxHuffLen + 1)
           /\ \A a, b \in bytes :
                a # b => /\ codes[a][1] # codes[b][1]
                         /\ ~IsProperPrefix(codes[a][1], codes[b][1])

\* C19 happens: a table with lengths 1, 2 and 2 was serialised.
C19_Witness ==
    /\ h_pc = "written"
    /\ ~h_cut
    /\ Len(h_code_lengths) = 3
    /\ h_code_lengths[1][2] = 1
    /\ h_code_lengths[2][2] = 2
    /\ h_code_lengths[3][2] = 2

\* C14: empty input gives empty output, for Delta, Huffman, RLE v1 and RLE v2.
\* Encoding an empty input writes zero bytes, no header among them, and
\* decoding an empty input succeeds with zero bytes of output.
C14_EmptyInEmptyOut ==
    /\ (d_pc = "done" /\ d_stage = 1 /\ d_orig = <<>>
           /\ (d_transform = "Decode" => has_correct_extension(d_in_ext))) =>
          (d_result = "Ok" /\ d_output = <<>>)
    /\ (h_pc = "done" /\ h_args_len = 3 /\ h_buffer = <<>>) =>
          (h_result = "Ok" /\ h_file = <<>> /\ h_result_file = <<>>)
    /\ (r_pc = "done" /\ r_stage = 1 /\ r_orig = <<>>
           /\ (r_command = "Decompress" => r_in_suffix = ".purgepack")) =>
          (r_result = "Ok" /\ r_output = <<>>)

\* C15: header first.  For every non-empty input and each of Delta, Huffman,
\* RLE v1 and RLE v2, the bytes the encoder writes to its output file begin
\* with 0x50 0x50 0x43 0x42 and the one-byte algorithm id, and the header is
\* written once.
C15_HeaderFirst ==
    /\ (d_transform = "Encode" /\ d_orig # <<>> /\ d_pc \in { "seed", "loop", "done" }) =>
          /\ IsPrefixOf(<< 80, 80, 67, 66, 1 >>, d_output)
          /\ d_pc = "done" => Len(d_output) = 5 + Len(d_input)
    /\ (h_args_len = 3 /\ h_buffer # <<>> /\ h_pc = "done") =>
          (Len(h_file) > 5 /\ SubSeq(h_file, 1, 4) = << 80, 80, 67, 66 >>)
    /\ (r_command = "Compress" /\ r_orig # <<>> /\ r_pc = "done") =>
          (Len(r_output) > 5 /\ SubSeq(r_output, 1, 4) = << 80, 80, 67, 66 >>)

\* C16: Delta header validation.  The decoder fails with a corrupt-input error
\* when the input has fewer than 5 bytes or bytes 0..3 are not "PPCB", whatever
\* the id is; it fails with an unsupported-algorithm error when the magic
\* matches and byte 4 is not 0x01; only when both checks pass does it decode,
\* and then the payload starts at byte 5.
C16_DeltaHeaderValidation ==
    (d_transform = "Decode" /\ has_correct_extension(d_in_ext) /\ d_pc # "begin") =>
       LET short == Len(d_input) < 5
           magic_ok == ~short /\ SubSeq(d_input, 1, 4) = << 80, 80, 67, 66 >>
           id_ok == ~short /\ d_input[5] = 1
       IN  /\ short => (d_pc = "done" /\ d_output = <<>>
                           /\ d_result = "Err: UnexpectedEof: failed to read header")
           /\ (~short /\ ~magic_ok) => (d_pc = "done" /\ d_output = <<>>
                                           /\ d_result = "Err: InvalidData: magic number")
           /\ (magic_ok /\ ~id_ok) => (d_pc = "done" /\ d_output = <<>>
                                          /\ d_result = "Err: InvalidData: unsupported module id")
           /\ (magic_ok /\ id_ok) =>
                 /\ d_result \in { "none", "Ok" }
                 /\ d_pos >= 5
                 /\ d_pc = "seed" => (d_pos = 5 /\ d_output = <<>>)
                 /\ d_pc = "done" =>
                       /\ Len(d_output) = Len(d_input) - 5
                       /\ Len(d_input) > 5 => d_output[1] = d_input[6]

\* C16 happens: a file whose magic and id are both wrong was given to the
\* decoder, and the error is the one for the magic.
C16_Witness ==
    /\ d_transform = "Decode"
    /\ has_correct_extension(d_in_ext)
    /\ d_pc = "done"
    /\ Len(d_input) > 5
    /\ SubSeq(d_input, 1, 4) # << 80, 80, 67, 66 >>
    /\ d_input[5] # 1
    /\ d_result = "Err: InvalidData: magic number"

\* C22: RLE v1 output shape.  For every input X, compress_v1(X) has an even
\* length, and its length is at most 2 * |X|.
C22_V1Shape ==
    (r_command = "Compress" /\ r_chosen = "One" /\ r_pc \in { "write", "done" }) =>
        /\ Len(r_data) % 2 = 0
        /\ Len(r_data) <= 2 * Len(r_input)

\* C22 happens: v1 compressed a file of several bytes, no two neighbours equal,
\* into twice as many bytes.
C22_Witness ==
    /\ r_command = "Compress"
    /\ r_chosen = "One"
    /\ r_pc = "done"
    /\ Len(r_input) >= 2
    /\ Len(r_output) = 2 * Len(r_input)

\* C27: file-level round trip with the default version.  For every input
\* file, compress with version auto and then decompress of the file written,
\* with version auto, writes the original bytes, whichever variant was chosen.
C27_AutoRoundTrip ==
    (/\ r_stage = 2
     /\ r_pc = "done"
     /\ r_version = "Auto"
     /\ r_in_suffix = ".purgepack"
     /\ r_log[Len(r_log)].version = "Auto") =>
        /\ r_result = "Ok"
        /\ r_output = r_orig

\* C24: with version auto the encoding is a function of the input.  Two runs
\* of compress with version auto on one input file choose the same variant and
\* write the same bytes, whatever offsets are drawn.
C24_AutoIsPure ==
    (Len(r_log) = 2 /\ r_log[1].version = "Auto" /\ r_log[2].version = "Auto") =>
        /\ r_log[1].chosen = r_log[2].chosen
        /\ r_log[1].output = r_log[2].output

\* The index of the last byte of the run of equal bytes that starts at index i.
RunEnd(data, i) ==
    LET ends == { k \in i..Len(data) : k = Len(data) \/ data[k + 1] # data[i] }
    IN  CHOOSE e \in ends : \A k \in ends : e <= k

\* The counts a run of n equal bytes is to be split into: 255 as often as it
\* fits, then the remainder, if any.
SplitCounts(n) ==
    [k \in 1..(n \div 255) |-> 255] \o (IF n % 255 = 0 THEN <<>> ELSE << n % 255 >>)

\* The pairs of v1 for the counts, of one byte.
RECURSIVE PairsOf(_, _)
PairsOf(counts, byte) ==
    IF counts = <<>> THEN <<>>
    ELSE << Head(counts), byte >> \o PairsOf(Tail(counts), byte)

\* The triplets and literals of v2 for the counts, of one byte.
RECURSIVE TripletsOf(_, _)
TripletsOf(counts, byte) ==
    IF counts = <<>> THEN <<>>
    ELSE (IF Head(counts) > 3 \/ byte = 0
          THEN << 0, Head(counts), byte >>
          ELSE [k \in 1..Head(counts) |-> byte]) \o TripletsOf(Tail(counts), byte)

\* The encoding of the runs of data from index i on, run by run.
RECURSIVE SplitRuns(_, _, _)
SplitRuns(data, i, variant) ==
    IF i > Len(data) THEN <<>>
    ELSE LET e == RunEnd(data, i)
             counts == SplitCounts(e - i + 1)
         IN  (IF variant = "One" THEN PairsOf(counts, data[i])
              ELSE TripletsOf(counts, data[i])) \o SplitRuns(data, e + 1, variant)

\* The count bytes of a v2 stream from index i on: the byte after each ESC.
RECURSIVE TripletCounts(_, _)
TripletCounts(compressed_data, i) ==
    IF i > Len(compressed_data) THEN {}
    ELSE IF compressed_data[i] = 0
    THEN { compressed_data[i + 1] } \cup TripletCounts(compressed_data, i + 3)
    ELSE TripletCounts(compressed_data, i + 1)

\* C26: RLE run counts.  Every count byte of compress_v1 (the first byte of
\* each pair) and of compress_v2 (the second byte of each ESC triplet) is in
\* 1..255, and a run of more than 255 equal bytes is split into runs of 255
\* followed by one run of the remainder: 268 bytes 0x04 become 255 4 13 4 in
\* v1 and ESC 255 4 ESC 13 4 in v2.
C26_RunCounts ==
    (r_command = "Compress" /\ r_pc \in { "write", "done" }) =>
        /\ r_data = SplitRuns(r_input, 1, r_chosen)
        /\ r_chosen = "One" =>
              \A k \in 1..(Len(r_data) \div 2) : r_data[2 * k - 1] \in 1..255
        /\ r_chosen = "Two" => TripletCounts(r_data, 1) \subseteq 1..255
        /\ r_input = [k \in 1..268 |-> 4] =>
              r_data = IF r_chosen = "One" THEN << 255, 4, 13, 4 >>
                       ELSE << 0, 255, 4, 0, 13, 4 >>

\* C26 happens: the 268-byte run of 0x04 was compressed with v2 and written.
C26_Witness ==
    /\ r_command = "Compress"
    /\ r_pc = "done"
    /\ r_input = [k \in 1..268 |-> 4]
    /\ r_version = "Two"
    /\ r_output = << 0, 255, 4, 0, 13, 4 >>

OutputHeader == IF d_transform = "Encode" THEN APPLICATION_MAGIC \o << MODULE_ID >> ELSE <<>>

\* The index of the seed byte in the input.
SeedIndex == IF d_transform = "Encode" THEN 1 ELSE HEADER_SIZE + 1

\* C29: Delta chunk independence.  The output of the forward and of the
\* inverse transform does not depend on how the reader splits the input into
\* chunks: for every input and every partition of the bytes after the seed
\* into non-empty chunks, the output is that of one chunk holding them all.
C29_ChunkIndependence ==
    (d_pc \in { "loop", "done" } /\ d_pos > SeedIndex) =>
        d_output = OutputHeader \o << d_input[SeedIndex] >>
                     \o transform_data_chunk(SubSeq(d_input, SeedIndex + 1, d_pos),
                                             d_input[SeedIndex], d_transform).out

\* C29 happens: the inverse transform ended after the loop took the bytes
\* after the seed in three chunks, the deltas such that the sum wraps.
C29_Witness ==
    /\ d_stage = 2
    /\ d_pc = "done"
    /\ d_result = "Ok"
    /\ d_chunks = 3
    /\ d_output = d_orig
    /\ \E i \in 2..Len(d_orig) : d_orig[i] < d_orig[i - 1]

\* Whether a directory listing holds a file with the target's library
\* extension, in either case.
HoldsLibrary(d, target) ==
    \E i \in DOMAIN d :
        /\ d[i].is_file
        /\ d[i].ext \in (IF target = "linux" THEN { "so", "SO" } ELSE { "dll", "DLL" })

\* C28: when the all-modules pass for global arguments fails to load (the
\* modules folder is missing, or holds no shared-library file), main prints
\* the error and returns at once: no module is started, and no +name group
\* that follows on the command line, +core included, is processed.
C28_GlobalLoadFailureEndsMain ==
    (global_args.some /\ pc \notin { "start", "global", "panic" } /\ ~HoldsLibrary(dir, os)) =>
        /\ pc = "returned"
        /\ Len(printed) = 1
        /\ printed[1] \in { "LoadError: folder created", "LoadError: create folder failed",
                            "LoadError: Found no modules!" }
        /\ events = <<>>
        /\ handles = <<>>
        /\ group_log = <<>>
        /\ pings = PingCount(ExpectedGlobal(argv))

\* C28 happens: a global argument, then +core with ping and a module group,
\* with a modules folder that holds only a directory named like a library.
C28_Witness ==
    /\ pc = "returned"
    /\ Len(argv) = 3
    /\ ~StartsGroup(argv[1])
    /\ argv[2] = << "+", "core" >>
    /\ argv[3] = << "ping" >>
    /\ dirExists
    /\ Len(dir) = 1
    /\ ~dir[1].is_file
    /\ group_log = <<>>

\* The last position at which the command line opens the group of name.
LastOccurrence(a, name) ==
    CHOOSE p \in GroupStarts(a) :
        /\ Tail(a[p]) = name
        /\ \A q \in GroupStarts(a) : Tail(a[q]) = name => q <= p

\* The module name of the library a handle was opened from.
NameOfHandle(h) == ModuleNameOf(dir[handles[h].file].stem, os).v

\* C30: when the same +name token occurs more than once on the command line,
\* the module is started once, with the program name followed by only the
\* arguments that follow the last occurrence of +name; the arguments given
\* after earlier occurrences reach no module.
C30_LastOccurrenceWins ==
    /\ \A h \in DOMAIN handles :
          (handles[h].pass = "group" /\ EvAt("startup", h) # {}) =>
              /\ handles[h].args =
                     << first_arg >> \o ExpectedGroup(argv, LastOccurrence(argv, NameOfHandle(h))).v
              /\ \A g \in DOMAIN handles :
                    (handles[g].pass = "group" /\ NameOfHandle(g) = NameOfHandle(h)) => g = h
    /\ \A h \in DOMAIN handles :
          (handles[h].pass = "all" /\ EvAt("startup", h) # {}) =>
              handles[h].args = << first_arg >> \o ExpectedGlobal(argv)
    /\ pc = "done" =>
          pings = PingCount(ExpectedGlobal(argv))
                  + (IF \E p \in GroupStarts(argv) : Tail(argv[p]) = << "core" >>
                     THEN PingCount(ExpectedGroup(argv, LastOccurrence(argv, << "core" >>)).v)
                     ELSE 0)

\* C30 happens: +a ping +a, and the module a was started with the program
\* name alone.
C30_Witness ==
    /\ pc = "done"
    /\ Len(argv) = 3
    /\ argv[1] = argv[3]
    /\ StartsGroup(argv[1])
    /\ argv[2] = << "ping" >>
    /\ \E h \in DOMAIN handles :
          /\ handles[h].pass = "group"
          /\ EvAt("startup", h) # {}
          /\ handles[h].args = << first_arg >>

\* The mandatory fields some setter call has set.
FieldsSet == { n \in DOMAIN s_called : s_called[n].some }

\* The list the section calls leave: sections replaces it, add_section
\* appends to it.
RECURSIVE SectionsAfter(_)
SectionsAfter(calls) ==
    IF calls = <<>> THEN <<>>
    ELSE LET last == calls[Len(calls)]
         IN  IF last.op = "sections" THEN last.v
             ELSE Append(SectionsAfter(SubSeq(calls, 1, Len(calls) - 1)), last.v)

\* C23: the statistics builder.  build returns the record if and only if all
\* seven mandatory fields were set by some earlier setter call, in whatever
\* order; otherwise it returns MissingField(name) for a mandatory field that
\* was never set.  The sections are optional and keep the order in which they
\* were added.
C23_BuilderMandatoryFields ==
    s_pc = "built" =>
        IF FieldsSet = DOMAIN s_called
        THEN /\ s_result.kind = "Ok"
             /\ \A n \in DOMAIN s_called : s_result.v[n] = s_called[n].v
             /\ s_result.v.sections = SectionsAfter(s_section_calls)
        ELSE /\ s_result.kind = "MissingField"
             /\ s_result.v \in DOMAIN s_called \ FieldsSet

\* C23 happens: build returned the record of a decompression, with two
\* sections added one after the other, the first named "write".
C23_Witness ==
    /\ s_pc = "built"
    /\ s_result.kind = "Ok"
    /\ ~s_result.v.is_compression
    /\ Len(s_section_calls) = 2
    /\ \A i \in 1..2 : s_section_calls[i].op = "add_section"
    /\ Len(s_result.v.sections) = 2
    /\ s_result.v.sections[1].name = "write"
    /\ s_result.v.sections[2].name = "read"

\* The samples of a list that are shorter in the variant than in the other.
PointsFor(chunks, variant) ==
    { i \in DOMAIN chunks :
        /\ chunks[i] # <<>>
        /\ IF variant = "Two"
           THEN Len(compress_v2(chunks[i])) < Len(compress_v1(chunks[i]))
           ELSE Len(compress_v1(chunks[i])) < Len(compress_v2(chunks[i])) }

\* C21: RLE auto-selection.  Over any list of samples, each non-empty sample
\* scores one point for the variant whose output is strictly shorter and none
\* on equal lengths; auto_choice_from_chunks returns v2 exactly when v2's score
\* is strictly greater than v1's, and v1 otherwise, ties and the empty list
\* included.
C21_AutoChoice ==
    a_pc = "returned" =>
        a_choice = IF Cardinality(PointsFor(a_chunks, "Two"))
                          > Cardinality(PointsFor(a_chunks, "One"))
                   THEN "Two" ELSE "One"

\* C21 happens: an empty sample, a sample shorter in v2 and a sample shorter
\* in v1 were scored, one point each way, and v1 was returned.
C21_Witness ==
    /\ a_pc = "returned"
    /\ Len(a_chunks) = 3
    /\ \E i \in 1..3 : a_chunks[i] = <<>>
    /\ Cardinality(PointsFor(a_chunks, "Two")) = 1
    /\ Cardinality(PointsFor(a_chunks, "One")) = 1
    /\ a_choice = "One"

====
